---- MODULE Spec2Model ----
(***************************************************************************)
(* Filter search of the Sonata library tab (sonata/library.py): the        *)
(* LibrarySearch data holder, the LibrarySearchThread worker and the        *)
(* Library handlers that run on the GLib main loop, together with the       *)
(* MPDClient wrapper (sonata/mpdhelper.py) they call.                       *)
(*                                                                         *)
(* Two threads are modelled.  The main thread runs one GLib callback at a   *)
(* time (mpc is its position inside a callback that can block on the        *)
(* condition lock or on join).  The worker runs LibrarySearchThread.run     *)
(* (wpc is its position).  Python switches threads between bytecodes, so    *)
(* every access made without the condition lock is a step of its own.       *)
(***************************************************************************)
EXTENDS Integers, Sequences, FiniteSets, TLC

\* ---------------------------------------------------------------- bounds
MaxInputs == 2        \* UI input events (typing, combo change) per run
MaxSessions == 2      \* search sessions (worker threads) started per run
MaxConnChanges == 1   \* changes of the MPD connection state per run

\* ------------------------------------------------------ values and inputs
NoneNum == -1                  \* Python None where an index is expected
NoneText == <<"None">>         \* Python None where a str is expected
NoneRows == <<-1>>             \* Python None where a list of songs is expected

SEARCH_TERMS == <<"artist", "title", "album", "genre", "file", "any">>

\* self.SEARCH_TERMS[n] for a 0-based index n
Term(n) == SEARCH_TERMS[n + 1]

\* texts the user types, as sequences of characters
Texts ==
  { <<>>, <<"f">>, <<"f", "o">>, <<"f", "o", "o">>, <<"b", "a">> }

\* combo positions the user selects: artist, title
Nums == {0, 1}

\* the songs of the MPD database, by tag
Catalog ==
  << [file |-> <<"d", "/", "a">>, title |-> <<"F", "o", "o">>,
      artist |-> <<"b", "a">>, genre |-> <<"f">>, album |-> <<"a">>,
      date |-> <<"1", "0">>, time |-> 1],
     [file |-> <<"d", "/", "b">>, title |-> <<"f", "o", "b">>,
      artist |-> <<"B", "a">>, genre |-> <<"F">>, album |-> <<"a">>,
      date |-> <<>>, time |-> 2],
     [file |-> <<"c">>, title |-> <<"b", "a", "r">>, artist |-> <<"f", "o">>,
      genre |-> <<>>, album |-> <<"b">>, date |-> <<>>, time |-> 3],
     [file |-> <<"d", "/", "r">>, title |-> <<"r">>, artist |-> <<"b", "a">>,
      genre |-> <<"f">>, album |-> <<"b">>, date |-> <<"1">>, time |-> 4] >>

SongIds == 1..Len(Catalog)

\* ------------------------------------------------------- string functions
\* str.lower() on one character
LowerChar(c) ==
  IF c = "F" THEN "f" ELSE IF c = "B" THEN "b"
  ELSE IF c = "Untagged" THEN "untagged"
  ELSE IF c = "Various Artists" THEN "various artists" ELSE c

\* str.lower()
Lower(s) == [i \in 1..Len(s) |-> LowerChar(s[i])]

\* s[:2]
Prefix2(s) == IF Len(s) <= 2 THEN s ELSE SubSeq(s, 1, 2)

\* t occurs in s as a contiguous run (what re.match('.*' + t, s) decides)
Contains(s, t) ==
  \E i \in 0..(Len(s) - Len(t)) : SubSeq(s, i + 1, i + Len(t)) = t

\* str.split(" "): the maximal runs between single spaces, empty runs kept
RECURSIVE Split(_)
Split(s) ==
  IF \A i \in 1..Len(s) : s[i] # " "
  THEN <<s>>
  ELSE LET k == CHOOSE i \in 1..Len(s) :
                  s[i] = " " /\ \A j \in 1..(i - 1) : s[j] # " "
       IN <<SubSeq(s, 1, k - 1)>> \o Split(SubSeq(s, k + 1, Len(s)))

\* row.get(search_by, ''): the tag of a song, '' when the song has none
RowGet(id, by) ==
  IF by = "title" THEN Catalog[id].title
  ELSE IF by = "artist" THEN Catalog[id].artist
  ELSE IF by = "file" THEN Catalog[id].file
  ELSE IF by = "genre" THEN Catalog[id].genre
  ELSE IF by = "album" THEN Catalog[id].album
  ELSE IF by = "date" THEN Catalog[id].date
  ELSE <<>>

\* the loop over regexps for one row of filter_search_data
RowMatches(id, by, text) ==
  LET toks == Split(text)
  IN \A k \in 1..Len(toks) : Contains(Lower(RowGet(id, by)), Lower(toks[k]))

\* str_data for the field 'any' calls row.values(), which an MPDSong does
\* not have: the first row of the list raises AttributeError
StrDataRaises(rows, by) == by = "any" /\ rows # <<>>

\* the rows of a list that match, in their order
RECURSIVE FilterRows(_, _, _)
FilterRows(rows, by, text) ==
  IF rows = <<>> THEN <<>>
  ELSE (IF RowMatches(Head(rows), by, text) THEN <<Head(rows)>> ELSE <<>>)
       \o FilterRows(Tail(rows), by, text)

\* what the MPD server answers to "search <by> <what>": the songs whose tag
\* contains the text, compared without case
MpdAnswer(by, what) ==
  LET all == [i \in SongIds |-> i]
  IN IF what = NoneText THEN <<>> ELSE FilterRows(all, by, what)

\* MPDClient._call for 'search': the answer, or None after a socket or
\* MPD error (only lsinfo and list fall back to an empty list)
SearchErrorValue == NoneRows
MpdSearchResults(by, what) == {MpdAnswer(by, what), SearchErrorValue}


\* ------------------------------------------------------------------ state
VARIABLES
  lib,      \* Library: visible (search_button), connected(), entry
            \* (search_text), last_search_num (config), timeout
            \* (search_update_timeout: 0 = None, else a GLib source id),
            \* timers (the timeout sources GLib holds), search_thread
            \* (0 = None, else the number of the thread object), nthreads
  search,   \* LibrarySearch: the filter search attributes
  thread,   \* the LibrarySearchThread of the current session, its position
            \* in run(), the locals of run(), and its condition
  idle,     \* callbacks queued on the main loop by GLib.idle_add, in order
  mpc,      \* where the main thread is: "loop" or inside a callback
  mloc,     \* locals of the callback the main thread is inside
  hist,     \* history: who made the last mpd call, what the cache and the
            \* ready flag stem from, the last search_ready delivered
  ninputs,  \* UI input events so far
  nconn,    \* connection changes so far
  cache,    \* LibrarySearch: cache_genres, cache_artists, cache_albums,
            \* cache_years
  out,      \* the last call of a query method: what it returned, the
            \* adapter calls it made, whether it came right after
            \* invalidate_cache, and the enumerations since the caches
            \* were last emptied
  views,    \* the four LibraryView objects (cache, data_rows), config.wd,
            \* and the last call of get_data or browse
  albums,   \* list_mark_various_artists_albums: the list handed in, the
            \* threshold, and what the call made of it
  mpdsongs  \* the MPDSong objects alive, and the last comparison of two
            \* of them

vars == <<lib, search, thread, idle, mpc, mloc, hist, ninputs, nconn,
          cache, out, views, albums, mpdsongs>>

\* no MPDSong built, nothing compared; compared holds the last comparison
\* made on the heap as it is
NoSongs == [ heap |-> <<>>, compared |-> <<>> ]

\* a list attribute that is None
NoneList == <<NoneText>>

\* LibrarySearch.__init__ / invalidate_cache: the four dimension caches
FreshCache ==
  [ cache_genres |-> NoneList, cache_artists |-> NoneList,
    cache_albums |-> NoneList, cache_years |-> NoneList ]

\* no query method was called
NoOut ==
  [ op |-> "none",
    query |-> [ genre |-> NoneText, artist |-> NoneText,
                album |-> NoneText, year |-> NoneText ],
    ret |-> <<>>, raised |-> FALSE, calls |-> <<>>, reached |-> <<>>,
    fresh |-> FALSE,
    listed |-> [t \in {"genre", "artist", "album", "date"} |-> 0] ]

\* LibrarySearch.__init__ / cleanup_search: the filter search attributes
FreshSearch ==
  [ search_num |-> NoneNum, search_input |-> NoneText,
    search_previous_count |-> -1, search_base |-> NoneText,
    search_by |-> "None", search_cache |-> NoneRows, subsearch |-> FALSE ]

\* LibrarySearchThread.__init__ with a fresh threading.Condition()
FreshThread ==
  [ stop_event |-> FALSE, ready_event |-> FALSE,
    input |-> NoneText, search_num |-> NoneNum,
    wpc |-> "acquire", changed |-> FALSE, rows |-> <<>>,
    lock |-> "free", woken |-> FALSE ]

\* no thread object: Library.search_thread is None
NoThread == [FreshThread EXCEPT !.wpc = "none"]

NoLocals == [th |-> 0, by |-> "None", base |-> NoneText, req |-> <<NoneText, NoneNum>>]

NoKey == <<"None", NoneText>>
NoReq == <<NoneText, NoneNum>>
NoDelivery ==
  [ th |-> 0, rows |-> <<>>, input |-> NoneText, num |-> NoneNum,
    key |-> NoKey, live |-> TRUE ]

FreshHist ==
  [ mpd_thread |-> "none", cache_key |-> NoKey, req_key |-> NoKey,
    ready_src |-> NoReq, snap_key |-> NoKey, delivered |-> NoDelivery,
    wlast |-> "none", orphans |-> {}, stale |-> FALSE ]

\* the views Library.__init__ creates
ViewNames == {"filesystem", "album", "artist", "genre"}

\* a view's cache attribute that is None
NoneBd == << [ key |-> NoneText, type |-> "None", data |-> NoneText,
              songs |-> 0, playtime |-> 0 ] >>

\* the record of no call on the views
NoViewCall ==
  [ op |-> "none", view |-> "filesystem",
    query |-> [ genre |-> NoneText, artist |-> NoneText, album |-> NoneText,
                year |-> NoneText, path |-> NoneText ],
    fails |-> {}, rows |-> <<>>, ncalls |-> 0, raised |-> FALSE,
    trail |-> <<>>, exhausted |-> FALSE ]

\* the views after Library.__init__: no cache and no rows, the view and
\* the working record of a first start; last is the last call on the
\* views, probe a get_data call that met no failure, kept from then to the
\* next view_caches_reset, failed tells whether an adapter command has
\* failed since the last view_caches_reset, and ncalls counts the calls on
\* the views
FreshViews ==
  [ cache |-> [v \in ViewNames |-> NoneBd],
    data_rows |-> [v \in ViewNames |-> {}],
    view |-> "filesystem",
    wd |-> [ genre |-> NoneText, artist |-> NoneText, album |-> NoneText,
             year |-> NoneText, path |-> <<"/">> ],
    last |-> NoViewCall, probe |-> NoViewCall, failed |-> FALSE,
    ncalls |-> 0 ]

\* list_mark_various_artists_albums was not called
NoAlbums ==
  [ given |-> <<>>, threshold |-> 0, called |-> FALSE, result |-> <<>>,
    gone |-> {}, marked |-> {}, raised |-> FALSE, turns |-> 0 ]

\* an entry of the idle queue
IdleEntry(cb, th, rows, req, key) ==
  [cb |-> cb, th |-> th, rows |-> rows, req |-> req, key |-> key]

Init ==
  /\ lib \in { [ visible |-> FALSE, connected |-> c, entry |-> <<>>,
                 last_search_num |-> n, timeout |-> 0, timers |-> {},
                 search_thread |-> 0, nthreads |-> 0 ]
               : c \in BOOLEAN, n \in Nums }
  /\ search = FreshSearch
  /\ thread = NoThread
  /\ idle = <<>>
  /\ mpc = "loop"
  /\ mloc = NoLocals
  /\ hist = FreshHist
  /\ ninputs = 0
  /\ nconn = 0
  /\ cache = FreshCache
  /\ out = NoOut
  /\ views = FreshViews
  /\ albums = NoAlbums
  /\ mpdsongs = NoSongs

\* Condition.notify_all(): a thread blocked in wait() becomes runnable
Notified(t) == IF t.wpc = "waiting" THEN [t EXCEPT !.woken = TRUE] ELSE t

\* ------------------------------------------------- main thread: handlers
\* search_toggle, first branch: show the button, create the condition and
\* the thread, connect the signals, start the thread
ToggleStart(l) ==
  [l EXCEPT !.visible = TRUE,
            !.search_thread = l.nthreads + 1,
            !.nthreads = l.nthreads + 1]

\* run() is still going
Running(t) == t.wpc \notin {"none", "dead"}

\* the thread objects that were let go of while run() was still going
Orphaned(h, l, t) ==
  IF Running(t) THEN h.orphans \cup {l.search_thread} ELSE h.orphans

\* a tail of on_search_update that adds a timeout without removing the
\* one it holds
RestartTimeoutKeepsOld(l, id) ==
  [l EXCEPT !.timers = l.timers \cup {id}, !.timeout = id]

\* the tail of on_search_update: GLib.source_remove of the source held in
\* search_update_timeout (None raises, which is passed over), then
\* GLib.timeout_add of a new source id
RestartTimeout(l, id) ==
  [l EXCEPT !.timers = (l.timers \ {l.timeout}) \cup {id}, !.timeout = id]

\* on_search_update, after the entry holds the text t
\*   hidden and connected: search_toggle starts a session, then the timeout
\*   hidden and not connected: search_toggle takes its else branch with
\*     search_thread None: the entry is emptied and the AttributeError of
\*     None.stop() ends the handler before the timeout is added
\*   visible: only the timeout
OnSearchUpdate(t) ==
  /\ mpc = "loop"
  /\ ninputs < MaxInputs
  /\ t # lib.entry
  /\ ninputs' = ninputs + 1
  /\ LET l == [lib EXCEPT !.entry = t]
     IN IF l.visible
        THEN /\ lib' = RestartTimeout(l, ninputs + 1)
             /\ UNCHANGED <<thread, hist>>
        ELSE IF l.connected
             THEN /\ l.nthreads < MaxSessions
                  /\ lib' = RestartTimeout(ToggleStart(l), ninputs + 1)
                  /\ thread' = FreshThread
                  /\ hist' = [hist EXCEPT
                                !.orphans = Orphaned(hist, lib, thread)]
             ELSE /\ lib' = [l EXCEPT !.entry = <<>>]
                  /\ UNCHANGED <<thread, hist>>
  /\ UNCHANGED <<search, idle, mpc, mloc, nconn>>
  /\ UNCHANGED <<cache, out, views, albums, mpdsongs>>

\* on_search_combo_change: remember the field, and when the search is
\* visible go on as on_search_update
OnSearchComboChange(n) ==
  /\ mpc = "loop"
  /\ ninputs < MaxInputs
  /\ n # lib.last_search_num
  /\ ninputs' = ninputs + 1
  /\ LET l == [lib EXCEPT !.last_search_num = n]
     IN lib' = IF l.visible THEN RestartTimeout(l, ninputs + 1) ELSE l
  /\ UNCHANGED <<search, thread, idle, mpc, mloc, hist, nconn>>
  /\ UNCHANGED <<cache, out, views, albums, mpdsongs>>

\* a timeout source fires (GLib drops it, update_search returns None):
\* update_search up to `with self.search_condition`; without a condition
\* (None) the with statement raises
UpdateSearchBegin ==
  /\ mpc = "loop"
  /\ \E id \in lib.timers :
       lib' = [lib EXCEPT !.timers = lib.timers \ {id}, !.timeout = 0]
  /\ mpc' = IF lib.search_thread = 0 THEN "loop" ELSE "us_lock"
  /\ UNCHANGED <<search, thread, idle, mloc, hist, ninputs, nconn>>
  /\ UNCHANGED <<cache, out, views, albums, mpdsongs>>

\* update_search inside the lock: publish field and text, notify
UpdateSearchLocked ==
  /\ mpc = "us_lock"
  /\ thread.lock = "free"
  /\ search' = [search EXCEPT !.search_num = lib.last_search_num,
                              !.search_input = lib.entry]
  /\ thread' = Notified(thread)
  /\ mpc' = "loop"
  /\ UNCHANGED <<lib, idle, mloc, hist, ninputs, nconn>>
  /\ UNCHANGED <<cache, out, views, albums, mpdsongs>>

\* search_toggle, else branch up to the lock: hide the button, empty the
\* entry with its handler blocked, set the stop flag
ToggleStop ==
  /\ lib' = [lib EXCEPT !.visible = FALSE, !.entry = <<>>]
  /\ thread' = [thread EXCEPT !.stop_event = TRUE]
  /\ mpc' = "toggle_lock"

\* on_search_end from the button or from on_view_chosen
OnSearchEnd ==
  /\ mpc = "loop"
  /\ lib.visible
  /\ ToggleStop
  /\ UNCHANGED <<search, idle, mloc, hist, ninputs, nconn>>
  /\ UNCHANGED <<cache, out, views, albums, mpdsongs>>

\* search_toggle: with self.search_condition: notify_all()
ToggleNotify ==
  /\ mpc = "toggle_lock"
  /\ thread.lock = "free"
  /\ thread' = Notified(thread)
  /\ mpc' = "toggle_join"
  /\ UNCHANGED <<lib, search, idle, mloc, hist, ninputs, nconn>>
  /\ UNCHANGED <<cache, out, views, albums, mpdsongs>>

\* a search_toggle that does not wait for the thread
JoinSkipped(t) == TRUE

\* self.search_thread.join() returns when run() has ended
JoinReturns(t) == t.wpc = "dead"

\* a cleanup_search that forgets search_base
CleanupSearchKeepsBase(s) == [FreshSearch EXCEPT !.search_base = s.search_base]

\* cleanup_search: every filter search attribute back to its first value
CleanupSearch(s) == FreshSearch

\* search_toggle: join() returned; forget thread and condition, reset the
\* search attributes (cleanup_search)
ToggleJoin ==
  /\ mpc = "toggle_join"
  /\ JoinReturns(thread)
  /\ lib' = [lib EXCEPT !.search_thread = 0]
  /\ thread' = NoThread
  /\ search' = CleanupSearch(search)
  /\ hist' = [hist EXCEPT !.cache_key = NoKey, !.req_key = NoKey,
                          !.ready_src = NoReq, !.snap_key = NoKey,
                          !.wlast = "none", !.stale = FALSE,
                          !.orphans = Orphaned(hist, lib, thread)]
  /\ mpc' = "loop"
  /\ UNCHANGED <<idle, mloc, ninputs, nconn>>
  /\ UNCHANGED <<cache, out, views, albums, mpdsongs>>

\* connected() changes its answer
ConnectionChange ==
  /\ nconn < MaxConnChanges
  /\ nconn' = nconn + 1
  /\ lib' = [lib EXCEPT !.connected = ~lib.connected]
  /\ UNCHANGED <<search, thread, idle, mpc, mloc, hist, ninputs>>
  /\ UNCHANGED <<cache, out, views, albums, mpdsongs>>

\* ------------------------------------------- main thread: idle callbacks
IdleHead(cb) == mpc = "loop" /\ idle # <<>> /\ Head(idle).cb = cb

\* perform_search up to the mpd call: the field is read from search_num
\* (a TypeError when it is None ends the callback), the text from
\* search_base; neither read holds the condition
PerformSearchBegin ==
  /\ IdleHead("perform_search")
  /\ idle' = Tail(idle)
  /\ IF search.search_num = NoneNum
     THEN UNCHANGED <<mpc, mloc, hist>>
     ELSE /\ mpc' = "ps_fetch"
          /\ mloc' = [ th |-> Head(idle).th, by |-> Term(search.search_num),
                       base |-> search.search_base, req |-> Head(idle).req ]
          /\ hist' = [hist EXCEPT !.mpd_thread = "main"]
  /\ UNCHANGED <<lib, search, thread, ninputs, nconn>>
  /\ UNCHANGED <<cache, out, views, albums, mpdsongs>>

\* perform_search: self.search_cache = self.mpd.search(search_by, base)
PerformSearchStore ==
  /\ mpc = "ps_fetch"
  /\ \E r \in MpdSearchResults(mloc.by, mloc.base) :
       search' = [search EXCEPT !.search_cache = r]
  /\ hist' = [hist EXCEPT !.cache_key = <<mloc.by, mloc.base>>,
                          !.stale = FALSE]
  /\ mpc' = "ps_ready"
  /\ UNCHANGED <<lib, thread, idle, mloc, ninputs, nconn>>
  /\ UNCHANGED <<cache, out, views, albums, mpdsongs>>

\* ready_cb, first statement: self.ready(), on the thread that asked; a
\* thread that was joined is no longer anybody's worker
PerformSearchReady ==
  /\ mpc = "ps_ready"
  /\ IF mloc.th = lib.search_thread
     THEN /\ thread' = [thread EXCEPT !.ready_event = TRUE]
          /\ hist' = [hist EXCEPT !.ready_src = mloc.req]
          /\ mpc' = "ps_lock"
     ELSE /\ mpc' = "loop"
          /\ UNCHANGED <<thread, hist>>
  /\ UNCHANGED <<lib, search, idle, mloc, ninputs, nconn>>
  /\ UNCHANGED <<cache, out, views, albums, mpdsongs>>

\* ready_cb: with self.condition: notify_all()
PerformSearchNotify ==
  /\ mpc = "ps_lock"
  /\ thread.lock = "free"
  /\ thread' = Notified(thread)
  /\ mpc' = "loop"
  /\ UNCHANGED <<lib, search, idle, mloc, hist, ninputs, nconn>>
  /\ UNCHANGED <<cache, out, views, albums, mpdsongs>>

\* emit('search_ready', data): search_ready_cb loads the rows in the tree
SearchReadyCb ==
  /\ IdleHead("search_ready")
  /\ idle' = Tail(idle)
  /\ hist' = [hist EXCEPT !.delivered =
                [ th |-> Head(idle).th, rows |-> Head(idle).rows,
                  input |-> Head(idle).req[1], num |-> Head(idle).req[2],
                  key |-> Head(idle).key,
                  live |-> Head(idle).th = lib.search_thread ]]
  /\ UNCHANGED <<lib, search, thread, mpc, mloc, ninputs, nconn>>
  /\ UNCHANGED <<cache, out, views, albums, mpdsongs>>

\* emit('search_stopped', False): on_search_end(thread, False)
SearchStoppedCb ==
  /\ IdleHead("search_stopped")
  /\ idle' = Tail(idle)
  /\ IF lib.visible
     THEN ToggleStop
     ELSE UNCHANGED <<lib, thread, mpc>>
  /\ UNCHANGED <<search, mloc, hist, ninputs, nconn>>
  /\ UNCHANGED <<cache, out, views, albums, mpdsongs>>

\* ---------------------------------------------------------------- worker
\* run(): the condition of the inner while loop
WaitCondition(t, s) ==
  /\ ~t.stop_event
  /\ ~t.ready_event
  /\ t.input = s.search_input
  /\ t.search_num = s.search_num

\* run(): input_changed or num_changed
InputOrNumChanged(t, s) ==
  t.input # s.search_input \/ t.search_num # s.search_num

\* a test that lets a single character through
ShouldRequestFromOne(changed, input_len) == changed /\ input_len > 0

\* run(): (input_changed or num_changed) and input_len > 1
ShouldRequest(changed, input_len) == changed /\ input_len > 1

\* request_search: the test that decides for a broad fetch
NeedsBroadFetch(s, search_by, search_base) ==
  \/ s.search_base = NoneText
  \/ s.search_base # search_base
  \/ s.search_by = "None"
  \/ s.search_by # search_by

\* request_search: the attributes written when a broad fetch is asked for
\* (search_base; nothing assigns search_by)
RememberRequest(s, search_by, search_base) ==
  [s EXCEPT !.search_base = search_base, !.subsearch = FALSE]

\* a request_search that calls perform_search itself
BroadFetchRunsOnCaller == "worker"

\* request_search: how perform_search is run, GLib.idle_add hands it to
\* the main loop
BroadFetchRunsOn == "main"

\* a filter_search_data that looks at the count alone
SuppressedOnCountAlone(s, matches) ==
  Len(matches) = s.search_previous_count

\* filter_search_data, last lines: None when a sub-search kept the count
Suppressed(s, matches) ==
  s.subsearch /\ Len(matches) = s.search_previous_count

WorkerAt(p) == thread.wpc = p

\* self.condition.acquire()
WAcquire ==
  /\ WorkerAt("acquire")
  /\ thread.lock = "free"
  /\ thread' = [thread EXCEPT !.lock = "worker", !.wpc = "check"]
  /\ UNCHANGED <<lib, search, idle, mpc, mloc, hist, ninputs, nconn>>
  /\ UNCHANGED <<cache, out, views, albums, mpdsongs>>

\* the while test; when it holds, wait() gives up the lock and blocks
WCheck ==
  /\ WorkerAt("check")
  /\ thread' = IF WaitCondition(thread, search)
               THEN [thread EXCEPT !.lock = "free", !.wpc = "waiting",
                                   !.woken = FALSE]
               ELSE [thread EXCEPT !.wpc = "proc"]
  /\ UNCHANGED <<lib, search, idle, mpc, mloc, hist, ninputs, nconn>>
  /\ UNCHANGED <<cache, out, views, albums, mpdsongs>>

\* wait() returns after a notify, with the lock again
WWake ==
  /\ WorkerAt("waiting")
  /\ thread.woken
  /\ thread.lock = "free"
  /\ thread' = [thread EXCEPT !.lock = "worker", !.wpc = "check",
                              !.woken = FALSE]
  /\ UNCHANGED <<lib, search, idle, mpc, mloc, hist, ninputs, nconn>>
  /\ UNCHANGED <<cache, out, views, albums, mpdsongs>>

\* after the loop: adopt a changed input or field; else, with the ready
\* flag set, start filter_search_data (iterating None raises and ends the
\* thread with the lock held); else nothing
WProcess ==
  /\ WorkerAt("proc")
  /\ IF InputOrNumChanged(thread, search)
     THEN /\ thread' = [thread EXCEPT !.input = search.search_input,
                                      !.search_num = search.search_num,
                                      !.changed = TRUE, !.wpc = "done"]
          /\ hist' = [hist EXCEPT !.wlast = "adopt"]
     ELSE IF thread.ready_event
     THEN /\ thread' = IF search.search_cache = NoneRows
                       THEN [thread EXCEPT !.changed = FALSE, !.wpc = "dead"]
                       ELSE [thread EXCEPT !.changed = FALSE,
                                           !.rows = search.search_cache,
                                           !.wpc = "filter"]
          /\ hist' = [hist EXCEPT !.wlast = "filter",
                                  !.snap_key = hist.cache_key]
     ELSE /\ thread' = [thread EXCEPT !.changed = FALSE, !.wpc = "done"]
          /\ hist' = [hist EXCEPT !.wlast = "none"]
  /\ UNCHANGED <<lib, search, idle, mpc, mloc, ninputs, nconn>>
  /\ UNCHANGED <<cache, out, views, albums, mpdsongs>>

\* filter_search_data: the matches of the list being iterated; unless
\* suppressed, remember their number and queue emit('search_ready')
WFilter ==
  /\ WorkerAt("filter")
  /\ IF StrDataRaises(thread.rows, Term(search.search_num))
     THEN /\ thread' = [thread EXCEPT !.rows = <<>>, !.wpc = "dead"]
          /\ UNCHANGED <<search, idle>>
     ELSE /\ LET matches == FilterRows(thread.rows, Term(search.search_num),
                                       search.search_input)
             IN IF Suppressed(search, matches)
                THEN UNCHANGED <<search, idle>>
                ELSE /\ search' = [search EXCEPT
                                     !.search_previous_count = Len(matches)]
                     /\ idle' = Append(idle,
                           IdleEntry("search_ready", lib.search_thread,
                                     matches,
                                     <<search.search_input,
                                       search.search_num>>,
                                     hist.snap_key))
          /\ thread' = [thread EXCEPT !.rows = <<>>, !.wpc = "done"]
  /\ UNCHANGED <<lib, mpc, mloc, hist, ninputs, nconn>>
  /\ UNCHANGED <<cache, out, views, albums, mpdsongs>>

\* self.done(); notify_all(); release()
WDone ==
  /\ WorkerAt("done")
  /\ thread' = [thread EXCEPT !.ready_event = FALSE, !.lock = "free",
                              !.wpc = "after"]
  /\ UNCHANGED <<lib, search, idle, mpc, mloc, hist, ninputs, nconn>>
  /\ UNCHANGED <<cache, out, views, albums, mpdsongs>>

\* after the release: return when stopped; else request a search, or
\* queue emit('search_stopped') for an empty input, or just loop
WAfter ==
  /\ WorkerAt("after")
  /\ IF thread.stop_event \/ thread.input = NoneText
     THEN /\ thread' = [thread EXCEPT !.wpc = "dead"]
          /\ UNCHANGED idle
     ELSE IF ShouldRequest(thread.changed, Len(thread.input))
     THEN /\ thread' = [thread EXCEPT !.wpc = "request"]
          /\ UNCHANGED idle
     ELSE /\ thread' = [thread EXCEPT !.wpc = "acquire"]
          /\ idle' = IF Len(thread.input) = 0
                     THEN Append(idle, IdleEntry("search_stopped",
                                   lib.search_thread, <<>>, NoReq, NoKey))
                     ELSE idle
  /\ UNCHANGED <<lib, search, mpc, mloc, hist, ninputs, nconn>>
  /\ UNCHANGED <<cache, out, views, albums, mpdsongs>>

\* LibrarySearchThread.request_search: with the lock, LibrarySearch.
\* request_search (from the shared field and text), notify_all()
WRequest ==
  /\ WorkerAt("request")
  /\ thread.lock = "free"
  /\ IF search.search_num = NoneNum \/ search.search_input = NoneText
     THEN /\ thread' = [thread EXCEPT !.wpc = "dead", !.lock = "worker"]
          /\ UNCHANGED <<search, idle, hist>>
     ELSE LET search_by == Term(search.search_num)
              search_base == Prefix2(search.search_input)
              req == <<thread.input, thread.search_num>>
          IN IF NeedsBroadFetch(search, search_by, search_base)
             THEN /\ IF BroadFetchRunsOn = "main"
                     THEN /\ search' =
                               RememberRequest(search, search_by, search_base)
                          /\ idle' = Append(idle,
                               IdleEntry("perform_search", lib.search_thread,
                                         <<>>, req, <<search_by, search_base>>))
                          /\ hist' = [hist EXCEPT
                                        !.req_key = <<search_by, search_base>>]
                          /\ thread' = [thread EXCEPT !.wpc = "acquire"]
                     ELSE /\ \E r \in MpdSearchResults(search_by, search_base) :
                               search' = [RememberRequest(search, search_by,
                                                          search_base)
                                            EXCEPT !.search_cache = r]
                          /\ UNCHANGED idle
                          /\ hist' = [hist EXCEPT
                                        !.req_key = <<search_by, search_base>>,
                                        !.cache_key = <<search_by, search_base>>,
                                        !.ready_src = req, !.stale = FALSE,
                                        !.mpd_thread = "worker"]
                          /\ thread' = [thread EXCEPT !.ready_event = TRUE,
                                                      !.wpc = "acquire"]
             ELSE /\ search' = [search EXCEPT !.subsearch = TRUE]
                  /\ thread' = [thread EXCEPT !.ready_event = TRUE,
                                              !.wpc = "acquire"]
                  /\ hist' = [hist EXCEPT !.ready_src = req]
                  /\ UNCHANGED idle
  /\ UNCHANGED <<lib, mpc, mloc, ninputs, nconn>>
  /\ UNCHANGED <<cache, out, views, albums, mpdsongs>>

\* ------------------------------------------------------------------ spec
MainNext ==
  \/ \E t \in Texts : OnSearchUpdate(t)
  \/ \E n \in Nums : OnSearchComboChange(n)
  \/ UpdateSearchBegin
  \/ UpdateSearchLocked
  \/ OnSearchEnd
  \/ ToggleNotify
  \/ ToggleJoin
  \/ PerformSearchBegin
  \/ PerformSearchStore
  \/ PerformSearchReady
  \/ PerformSearchNotify
  \/ SearchReadyCb
  \/ SearchStoppedCb

WorkerNext ==
  \/ WAcquire
  \/ WCheck
  \/ WWake
  \/ WProcess
  \/ WFilter
  \/ WDone
  \/ WAfter
  \/ WRequest

Next == MainNext \/ WorkerNext \/ ConnectionChange

Spec == Init /\ [][Next]_vars

\* The main loop goes on dispatching and a callback that waits for the lock
\* or for join goes on when it can; the worker thread is scheduled.  The
\* user is not obliged to type.
MainSteps ==
  \/ UpdateSearchBegin
  \/ UpdateSearchLocked
  \/ ToggleNotify
  \/ ToggleJoin
  \/ PerformSearchBegin
  \/ PerformSearchStore
  \/ PerformSearchReady
  \/ PerformSearchNotify
  \/ SearchReadyCb
  \/ SearchStoppedCb

FairSpec == Spec /\ WF_vars(MainSteps) /\ WF_vars(WorkerNext)

\* ---------------------------------------------------------------- claims
\* the field and the two-character prefix an input asks a broad set for
KeyOf(text, num) == <<Term(num), Prefix2(text)>>

\* the worker runs request_search in this step
RequestStep == thread.wpc = "request" /\ thread'.wpc = "acquire"

\* this step queues a callback cb on the main loop
Queues(cb) == Len(idle') = Len(idle) + 1 /\ idle'[Len(idle')].cb = cb

\* C1: once a broad fetch was performed for a field and a two-character
\* prefix in a session, request_search for a longer input with the same
\* field and the same first two characters takes the sub-search branch and
\* asks for no further broad fetch.
C1_SubSearchReuse ==
  [][ (/\ RequestStep
       /\ thread.input = search.search_input
       /\ thread.search_num = search.search_num
       /\ hist.req_key = KeyOf(search.search_input, search.search_num)
       /\ hist.cache_key = hist.req_key
       /\ search.search_cache # NoneRows
       /\ Len(search.search_input) > 2)
        => (search'.subsearch /\ ~Queues("perform_search")) ]_vars

\* C2: a search_ready that reaches search_ready_cb stems from the session
\* that is still running: none is delivered after search_toggle ended it.
C2_NoDeliveryAfterStop == hist.delivered.live

\* nothing is left to run until the user acts again: the main loop is idle
\* with nothing queued and no timeout, the worker is blocked in wait()
Settled ==
  /\ mpc = "loop" /\ idle = <<>> /\ lib.timers = {}
  /\ lib.visible
  /\ thread.wpc = "waiting" /\ ~thread.woken

\* C3: when everything has settled on a published input of two or more
\* characters, the last search_ready delivered was filtered with that input
\* and field over the broad set fetched for its prefix and field.
C3_LatestInputWins ==
  (Settled /\ Len(search.search_input) >= 2
           /\ search.search_cache # NoneRows)
    => /\ hist.delivered.th = lib.search_thread
       /\ hist.delivered.input = search.search_input
       /\ hist.delivered.num = search.search_num
       /\ hist.delivered.key = KeyOf(search.search_input, search.search_num)

\* C4: no mpd call is made by the worker thread: the worker hands the
\* broad fetch to the main loop and filters the cached list only.
C4_OnlyMainCallsMpd == hist.mpd_thread # "worker"

\* the worker filters a list that the main thread fetched for it
C4_Witness ==
  /\ hist.mpd_thread = "main"
  /\ thread.wpc = "filter"
  /\ hist.snap_key = KeyOf(thread.input, thread.search_num)

\* C5: the shared search state is written only with the condition lock
\* held; in particular perform_search of the current session never writes
\* search_cache while the worker is inside its filtering pass.
C5_LockDiscipline ==
  [][ (mloc.th = lib.search_thread /\ mpc = "ps_fetch" /\ mpc' = "ps_ready")
        => thread.wpc # "filter" ]_vars

\* C6: once search_toggle has set the stop flag, the worker returns and
\* search_toggle gets through notify and join back to the main loop.
C6_StopTerminates ==
  (mpc = "toggle_lock") ~> (mpc = "loop" /\ lib.search_thread = 0)

\* C7: the worker is blocked in wait() only while the stop flag and the
\* ready flag are unset and its input and field equal the shared ones.
C7_BlockedOnlyWhenIdle ==
  (thread.wpc = "waiting" /\ ~thread.woken) => WaitCondition(thread, search)

\* the worker starts filter_search_data in this step
FilterStartStep ==
  thread.wpc = "proc" /\ thread'.wpc \in {"filter", "dead"}
    /\ ~InputOrNumChanged(thread, search)

\* C8: request_search for an input whose prefix or field differs from the
\* cached broad set schedules a broad fetch with subsearch False, and every
\* search_ready queued for an input of two or more characters was filtered
\* from the broad set fetched for that input's prefix and field.
C8_FetchBeforeDelivery ==
  [][ /\ (RequestStep /\ hist.cache_key # KeyOf(search.search_input,
                                                search.search_num))
           => (Queues("perform_search") /\ ~search'.subsearch)
      /\ (Queues("search_ready") /\ Len(search.search_input) >= 2)
           => idle'[Len(idle')].key = KeyOf(search.search_input,
                                            search.search_num) ]_vars

\* C9: the worker filters only when its input and field equal the shared
\* ones, and a broad set whose fetch was overtaken by a change of input or
\* field is discarded: the list it starts to filter for an input of two or
\* more characters was fetched for the prefix and field now shared.
C9_StaleDeliveryDiscarded ==
  [][ (FilterStartStep /\ thread'.wpc = "filter"
         /\ Len(search.search_input) >= 2)
        => /\ thread.input = search.search_input
           /\ thread.search_num = search.search_num
           /\ hist.cache_key = KeyOf(search.search_input,
                                     search.search_num) ]_vars

\* C10: every perform_search queued or running was requested while the
\* input observed by the worker had at least two characters.
C10_MinimumInputLength ==
  /\ \A i \in 1..Len(idle) :
       idle[i].cb = "perform_search"
         => (idle[i].req[1] # NoneText /\ Len(idle[i].req[1]) >= 2)
  /\ mpc \in {"ps_fetch", "ps_ready", "ps_lock"}
       => (mloc.req[1] # NoneText /\ Len(mloc.req[1]) >= 2)

\* the worker has looked at a changed input of one character and gone back
\* to the top of its loop, and no fetch is queued or running
C10_Witness ==
  /\ thread.input # NoneText /\ Len(thread.input) = 1
  /\ thread.changed
  /\ thread.wpc = "acquire"
  /\ hist.wlast = "adopt"
  /\ idle = <<>> /\ mpc = "loop"


\* ------------------------------------------------------------------ C11
\* C11: when the input the worker is given is the empty string while a
\* session is on, the session comes to its end: search_stopped is emitted,
\* on_search_end runs, the worker is stopped and joined and the search
\* attributes are reset.
C11_EmptyInputEndsSearch ==
  (lib.search_thread # 0 /\ search.search_input = <<>>)
    ~> (lib.search_thread = 0 /\ search = FreshSearch)

\* ------------------------------------------------------------------ C12
\* filter_search_data taken by itself: the thread stands before it with a
\* list to filter, and the attributes it reads have any of their values
RowLists == { <<>>, <<1>>, <<3>>, <<1, 2>>, <<1, 2, 3>> }
PreviousCounts == { -1, 0, 1, 2 }
FilterInputs ==
  { t \in Texts : Len(t) >= 2 }
    \cup { <<"o", " ", "f">>, <<"f", " ", "b">>, <<"o", " ", " ", "b">> }

\* the fields the combo selects: artist, title, any
FilterNums == {0, 1, 5}

FilterInit ==
  /\ lib \in { [ visible |-> TRUE, connected |-> TRUE, entry |-> t,
                 last_search_num |-> n, timeout |-> 0, timers |-> {},
                 search_thread |-> 1, nthreads |-> 1 ]
               : t \in FilterInputs, n \in FilterNums }
  /\ search \in { [ search_num |-> lib.last_search_num,
                    search_input |-> lib.entry,
                    search_previous_count |-> c,
                    search_base |-> Prefix2(lib.entry),
                    search_by |-> "None", search_cache |-> r,
                    subsearch |-> sub ]
                  : c \in PreviousCounts, r \in RowLists,
                    sub \in BOOLEAN }
  /\ thread = [FreshThread EXCEPT !.input = search.search_input,
                                  !.search_num = search.search_num,
                                  !.ready_event = TRUE,
                                  !.rows = search.search_cache,
                                  !.wpc = "filter", !.lock = "worker"]
  /\ idle = <<>>
  /\ mpc = "loop"
  /\ mloc = NoLocals
  /\ hist = FreshHist
  /\ ninputs = 0
  /\ nconn = 0
  /\ cache = FreshCache
  /\ out = NoOut
  /\ views = FreshViews
  /\ albums = NoAlbums
  /\ mpdsongs = NoSongs

FilterNext == WFilter

FilterSpec == FilterInit /\ [][FilterNext]_vars

\* the number of rows of the list being filtered that match the input
MatchCount ==
  Cardinality({ i \in 1..Len(thread.rows) :
                  RowMatches(thread.rows[i], Term(search.search_num),
                             search.search_input) })

\* C12: filter_search_data queues no search_ready and leaves
\* search_previous_count alone exactly when subsearch is set and the
\* number of matches equals search_previous_count; in every other case
\* it queues search_ready and sets search_previous_count to that number.
C12_SuppressedExactlyOnSameCount ==
  [][ thread.wpc = "filter" =>
        IF search.subsearch /\ MatchCount = search.search_previous_count
        THEN /\ idle' = idle
             /\ search'.search_previous_count = search.search_previous_count
        ELSE /\ Len(idle') = Len(idle) + 1
             /\ idle'[Len(idle')].cb = "search_ready"
             /\ Len(idle'[Len(idle')].rows) = MatchCount
             /\ search'.search_previous_count = MatchCount ]_vars

\* a sub-search with the count of the search before it went undelivered
C12_Witness ==
  /\ thread.wpc = "done"
  /\ search.subsearch
  /\ search.search_previous_count > 0
  /\ idle = <<>>

\* ------------------------------------------------------------------ C13
\* on_search_update ran to its end (hidden and not connected it ends in
\* search_toggle, before the timeout lines)
SearchUpdateStep == ninputs' = ninputs + 1 /\ lib'.visible

\* a timeout source fired and update_search was entered
TimeoutFiredStep == ninputs' = ninputs /\ lib'.timers # lib.timers

\* update_search wrote the input and the field
PublishStep == mpc = "us_lock" /\ mpc' = "loop"

C14_SessionStateLifecycle ==
  [][ /\ lib.search_thread = 0 => search = FreshSearch
      /\ lib'.search_thread = 0 => search' = FreshSearch
      /\ (RequestStep /\ hist.req_key = NoKey) =>
            /\ search.search_base = NoneText
            /\ search.search_by = "None"
            /\ ~search.subsearch
            /\ Queues("perform_search") ]_vars

\* a second session, started after the first was ended, made its request
\* and queued the fetch
C14_Witness ==
  /\ lib.search_thread = 2
  /\ hist.req_key # NoKey
  /\ search.search_base # NoneText
  /\ \E i \in 1..Len(idle) : idle[i].cb = "perform_search" /\ idle[i].th = 2

\* ------------------------------------------------------------------ C15
\* the thread objects whose run() is going
Alive ==
  hist.orphans \cup (IF Running(thread) THEN {lib.search_thread} ELSE {})

\* C15: at most one LibrarySearchThread is alive, and it is the one held in
\* search_thread; a thread is started only by on_search_update finding
\* the search hidden (and the client connected), with no thread held; and
\* search_thread is cleared only after run() has ended (join).
C15_SingleWorker ==
  [][ /\ Cardinality(Alive) <= 1
      /\ Alive \subseteq {lib.search_thread} \ {0}
      /\ Cardinality(Alive') <= 1
      /\ lib'.nthreads # lib.nthreads =>
            /\ ninputs' = ninputs + 1
            /\ ~lib.visible /\ lib.connected
            /\ lib.search_thread = 0
            /\ lib'.search_thread = lib'.nthreads
      /\ (lib.search_thread # 0 /\ lib'.search_thread = 0) =>
            /\ ~Running(thread)
            /\ thread.stop_event ]_vars

\* a second thread was started after the first was stopped and joined
C15_Witness ==
  /\ lib.nthreads = 2
  /\ Alive = {2}


\* ------------------------------------------------- the dimension caches
\* the tag values the code compares with
NOTAG == <<"Untagged">>
VARIOUS_ARTISTS == <<"Various Artists">>

\* SongRecord(): every field None
EmptyRecord ==
  [ genre |-> NoneText, artist |-> NoneText, album |-> NoneText,
    year |-> NoneText ]

\* the order in which get_lists goes through the fields of a SongRecord
ListOrder == <<"genre", "artist", "album", "date">>

\* the order in which get_searches goes through them
SearchOrder == <<"genre", "album", "artist", "date">>

\* the field of a SongRecord that holds a tag
RecGet(rec, tag) ==
  IF tag = "genre" THEN rec.genre
  ELSE IF tag = "artist" THEN rec.artist
  ELSE IF tag = "album" THEN rec.album
  ELSE rec.year

\* the cache attribute of a tag
CacheGet(c, tag) ==
  IF tag = "genre" THEN c.cache_genres
  ELSE IF tag = "artist" THEN c.cache_artists
  ELSE IF tag = "album" THEN c.cache_albums
  ELSE c.cache_years

CacheSet(c, tag, v) ==
  IF tag = "genre" THEN [c EXCEPT !.cache_genres = v]
  ELSE IF tag = "artist" THEN [c EXCEPT !.cache_artists = v]
  ELSE IF tag = "album" THEN [c EXCEPT !.cache_albums = v]
  ELSE [c EXCEPT !.cache_years = v]

\* a list without its repeated elements, first occurrences kept
RECURSIVE Distinct(_)
Distinct(seq) ==
  IF seq = <<>> THEN <<>>
  ELSE LET front == Distinct(SubSeq(seq, 1, Len(seq) - 1))
           last == seq[Len(seq)]
       IN IF \E i \in 1..Len(front) : front[i] = last
          THEN front ELSE Append(front, last)

\* [item for item in items if len(item) > 0]
NonEmpty(items) == SelectSeq(items, LAMBDA v : Len(v) > 0)

\* the songs that carry exactly the given value for each tag of args, a
\* sequence of <<tag, value>> pairs
ExactSongs(args) ==
  SelectSeq([i \in SongIds |-> i],
            LAMBDA id : \A k \in 1..Len(args) :
                          RowGet(id, args[k][1]) = args[k][2])

\* what the MPD server answers to "list <tag> <args>"
MpdListAnswer(tag, args) ==
  LET songs == ExactSongs(args)
  IN Distinct([k \in 1..Len(songs) |-> RowGet(songs[k], tag)])

\* what it answers to "count <args>", as MPDCount
RECURSIVE SumTime(_)
SumTime(songs) ==
  IF songs = <<>> THEN 0
  ELSE Catalog[Head(songs)].time + SumTime(Tail(songs))

MpdCountAnswer(args) ==
  LET songs == ExactSongs(args)
  IN [playtime |-> SumTime(songs), songs |-> Len(songs)]

\* what it answers to "search <args>": the songs whose tags contain the
\* values, compared without case
MpdSearchAnswer(args) ==
  SelectSeq([i \in SongIds |-> i],
            LAMBDA id : \A k \in 1..Len(args) :
                          Contains(Lower(RowGet(id, args[k][1])),
                                   Lower(args[k][2])))

\* MPDClient._call: after a socket or MPD error 'lsinfo' and 'list' give
\* [], 'status' gives {}, every other command gives None
FailureGivesList(cmd) == cmd \in {"lsinfo", "list"}

\* a record of one adapter call and of the method that made it
Call(cmd, tag, args, from) ==
  [cmd |-> cmd, tag |-> tag, args |-> args, from |-> from]

\* str.upper()
UpperChar(c) ==
  IF c = "f" THEN "F" ELSE IF c = "b" THEN "B" ELSE IF c = "a" THEN "A"
  ELSE IF c = "o" THEN "O" ELSE IF c = "r" THEN "R" ELSE c

Upper(s) == [i \in 1..Len(s) |-> UpperChar(s[i])]

\* locale.strxfrm, in a collation that goes by code point
CharCode(c) ==
  IF c = " " THEN 32 ELSE IF c = "/" THEN 47 ELSE IF c = "0" THEN 48
  ELSE IF c = "1" THEN 49 ELSE IF c = "9" THEN 57 ELSE IF c = "B" THEN 66
  ELSE IF c = "F" THEN 70 ELSE IF c = "Untagged" THEN 85
  ELSE IF c = "Various Artists" THEN 86 ELSE IF c = "a" THEN 97
  ELSE IF c = "b" THEN 98 ELSE IF c = "c" THEN 99 ELSE IF c = "d" THEN 100
  ELSE IF c = "f" THEN 102 ELSE IF c = "o" THEN 111 ELSE IF c = "r" THEN 114
  ELSE IF c = "untagged" THEN 117 ELSE IF c = "various artists" THEN 118
  ELSE 127

RECURSIVE Before(_, _)
Before(a, b) ==
  IF b = <<>> THEN FALSE
  ELSE IF a = <<>> THEN TRUE
  ELSE IF CharCode(Head(a)) # CharCode(Head(b))
       THEN CharCode(Head(a)) < CharCode(Head(b))
       ELSE Before(Tail(a), Tail(b))

\* list.sort(key=locale.strxfrm): stable
RECURSIVE Sorted(_)
Sorted(seq) ==
  IF seq = <<>> THEN <<>>
  ELSE LET rest == Sorted(Tail(seq))
           x == Head(seq)
           k == Cardinality({ i \in 1..Len(rest) : Before(rest[i], x) })
       IN SubSeq(rest, 1, k) \o <<x>> \o SubSeq(rest, k + 1, Len(rest))

\* misc.remove_list_duplicates(results, case=False): of the items that are
\* equal without case the first is kept
RECURSIVE DistinctNoCase(_)
DistinctNoCase(seq) ==
  IF seq = <<>> THEN <<>>
  ELSE LET front == DistinctNoCase(SubSeq(seq, 1, Len(seq) - 1))
           last == seq[Len(seq)]
       IN IF \E i \in 1..Len(front) : Lower(front[i]) = Lower(last)
          THEN front ELSE Append(front, last)


\* get_search / get_list, the loops that extend the tuples of searchlist
\* by (typename, item) for each item of itemlist
RECURSIVE Extended(_, _, _)
Extended(itemlist, searchlist, typename) ==
  IF itemlist = <<>> THEN <<>>
  ELSE (IF Len(searchlist) > 0
        THEN [j \in 1..Len(searchlist) |->
                Append(searchlist[j], <<typename, Head(itemlist)>>)]
        ELSE << << <<typename, Head(itemlist)>> >> >>)
       \o Extended(Tail(itemlist), searchlist, typename)

\* get_search
GetSearch(value, typename, searchlist) ==
  LET skip_type == typename = "artist" /\ value = VARIOUS_ARTISTS
  IN IF value # NoneText /\ ~skip_type
     THEN Extended(IF value = NOTAG THEN <<value, <<>>>> ELSE <<value>>,
                   searchlist, typename)
     ELSE searchlist

\* get_searches
RECURSIVE GetSearchesFrom(_, _, _)
GetSearchesFrom(k, rec, results) ==
  IF k > Len(SearchOrder) THEN results
  ELSE GetSearchesFrom(k + 1, rec,
         GetSearch(RecGet(rec, SearchOrder[k]), SearchOrder[k], results))

GetSearches(rec) == GetSearchesFrom(1, rec, <<>>)

\* get_search_items, the check of one song of the answer against the
\* arguments ('arg in item' holds for every tag a song object keeps)
Confirmed(id, args) ==
  \A k \in 1..Len(args) : Upper(RowGet(id, args[k][1])) = Upper(args[k][2])

\* the one element of a set of one: with a set constructor around it, the
\* way a value is worked out once and then named
The(S) == CHOOSE x \in S : TRUE

\* get_search_items: for each search the songs of mpd.search that pass the
\* check; iterating the None of a failed search raises
RECURSIVE SearchLoop(_, _)
SearchLoop(searches, fails) ==
  IF searches = <<>>
  THEN [songs |-> <<>>, calls |-> <<>>, raised |-> FALSE]
  ELSE LET args == Head(searches)
           call == Call("search", "", args, "get_search_items")
       IN IF "search" \in fails /\ ~FailureGivesList("search")
          THEN [songs |-> <<>>, calls |-> <<call>>, raised |-> TRUE]
          ELSE The({ [ songs |-> SelectSeq(MpdSearchAnswer(args),
                                           LAMBDA id : Confirmed(id, args))
                                 \o rest.songs,
                       calls |-> <<call>> \o rest.calls,
                       raised |-> rest.raised ]
                     : rest \in {SearchLoop(Tail(searches), fails)} })

GetSearchItems(rec, c, fails) ==
  The({ [ ret |-> IF loop.raised THEN <<>>
                  ELSE <<loop.songs, SumTime(loop.songs), Len(loop.songs)>>,
          cache |-> c, calls |-> loop.calls, reached |-> <<>>,
          raised |-> loop.raised ]
        : loop \in {SearchLoop(GetSearches(rec), fails)} })

\* a get_list that enumerates whether or not it holds a list
NeedsEnumerationAlways(cached_list) == TRUE

\* get_list: `if cached_list is None`
NeedsEnumeration(cached_list) == cached_list = NoneList

\* a get_list that goes on with no item
NoMatchIgnored(itemlist) == FALSE

\* get_list: `if len(itemlist) == 0`
NoMatch(itemlist) == Len(itemlist) = 0

\* mpd.list through MPDClient._call
MpdList(tag, args, fails) ==
  IF "list" \in fails THEN <<>> ELSE MpdListAnswer(tag, args)

\* get_list_items(typename, SongRecord(), ignore_case=False), as get_list
\* calls it: get_lists finds every field None and gives [], so the items
\* are those of mpd.list(typename), the empty ones left out, sorted
GetAllItems(typename, fails) ==
  [ ret |-> Sorted(NonEmpty(MpdList(typename, <<>>, fails))),
    calls |-> <<Call("list", typename, <<>>, "get_list")>> ]

\* get_list, after cached_list is there: the items that match, and the
\* results
Matched(value, typename, list, calls, searchlist) ==
  The({ IF NoMatch(itemlist)
        THEN [ none |-> TRUE, results |-> <<>>, cached_list |-> list,
               calls |-> calls ]
        ELSE [ none |-> FALSE,
               results |-> Extended(itemlist, searchlist, typename),
               cached_list |-> list, calls |-> calls ]
        : itemlist \in
            { IF value = NOTAG THEN <<value, <<>>>>
              ELSE SelectSeq(list, LAMBDA item : Lower(item) = Lower(value)) } })

\* get_list: (results, cached_list), `none` when results is None
GetList(value, typename, cached_list, searchlist, fails) ==
  LET skip_type == typename = "artist" /\ value = VARIOUS_ARTISTS
  IN IF value # NoneText /\ ~skip_type
     THEN IF value # NOTAG /\ NeedsEnumeration(cached_list)
          THEN The({ Matched(value, typename, Append(items.ret, <<>>),
                             items.calls, searchlist)
                     : items \in {GetAllItems(typename, fails)} })
          ELSE Matched(value, typename, cached_list, <<>>, searchlist)
     ELSE [ none |-> FALSE, results |-> searchlist,
            cached_list |-> cached_list, calls |-> <<>> ]

\* get_lists, one field: the call of get_list, the cache attribute set,
\* and `if results is None: return []`
ListStep(s, tag, g) ==
  [ ret |-> IF g.none THEN <<>> ELSE g.results,
    cache |-> CacheSet(s.cache, tag, g.cached_list),
    calls |-> s.calls \o g.calls,
    reached |-> Append(s.reached, tag),
    raised |-> FALSE, returned |-> g.none ]

\* get_lists from the k-th field on
RECURSIVE GetListsFrom(_, _, _, _)
GetListsFrom(k, rec, st, fails) ==
  IF k > Len(ListOrder) THEN st
  ELSE The({ IF s.returned THEN s
             ELSE GetListsFrom(k + 1, rec, s, fails)
             : s \in { ListStep(st, ListOrder[k], g)
                       : g \in { GetList(RecGet(rec, ListOrder[k]),
                                         ListOrder[k],
                                         CacheGet(st.cache, ListOrder[k]),
                                         st.ret, fails) } } })

\* get_lists
GetLists(rec, c, fails) ==
  GetListsFrom(1, rec,
               [ ret |-> <<>>, cache |-> c, calls |-> <<>>,
                 reached |-> <<>>, raised |-> FALSE, returned |-> FALSE ],
               fails)

\* `'' in search`
HasEmpty(tuple) == \E k \in 1..Len(tuple) : tuple[k][2] = <<>>

\* get_list_items, the items for one search: through get_search_items when
\* the search holds a '', else from mpd.list
ItemsOf(itemtype, rec, tuple, c, fails) ==
  IF HasEmpty(tuple)
  THEN The({ [ items |-> IF found.raised THEN <<>>
                         ELSE [k \in 1..Len(found.ret[1]) |->
                                 RowGet(found.ret[1][k], itemtype)],
               calls |-> found.calls, raised |-> found.raised ]
             : found \in {GetSearchItems(rec, c, fails)} })
  ELSE [ items |-> MpdList(itemtype, tuple, fails),
         calls |-> <<Call("list", itemtype, tuple, "get_list_items")>>,
         raised |-> FALSE ]

\* get_list_items, the loop over the searches
RECURSIVE ItemsLoop(_, _, _, _, _)
ItemsLoop(itemtype, rec, searches, c, fails) ==
  IF searches = <<>>
  THEN [items |-> <<>>, calls |-> <<>>, raised |-> FALSE]
  ELSE The({ IF one.raised
             THEN [items |-> <<>>, calls |-> one.calls, raised |-> TRUE]
             ELSE The({ [ items |-> NonEmpty(one.items) \o rest.items,
                          calls |-> one.calls \o rest.calls,
                          raised |-> rest.raised ]
                        : rest \in { ItemsLoop(itemtype, rec, Tail(searches),
                                               c, fails) } })
             : one \in {ItemsOf(itemtype, rec, Head(searches), c, fails)} })

\* get_list_items, after get_lists
ItemsFound(itemtype, rec, lists, fails) ==
  IF Len(lists.ret) > 0
  THEN ItemsLoop(itemtype, rec, lists.ret, lists.cache, fails)
  ELSE IF \A k \in 1..Len(ListOrder) : RecGet(rec, ListOrder[k]) = NoneText
  THEN [ items |-> NonEmpty(MpdList(itemtype, <<>>, fails)),
         calls |-> <<Call("list", itemtype, <<>>, "get_list_items")>>,
         raised |-> FALSE ]
  ELSE [items |-> <<>>, calls |-> <<>>, raised |-> FALSE]

\* get_list_items
GetListItems(itemtype, rec, ignore_case, c, fails) ==
  The({ The({ [ ret |-> IF found.raised THEN <<>>
                        ELSE Sorted(IF ignore_case
                                    THEN DistinctNoCase(found.items)
                                    ELSE found.items),
                cache |-> lists.cache, calls |-> lists.calls \o found.calls,
                reached |-> lists.reached, raised |-> found.raised ]
              : found \in {ItemsFound(itemtype, rec, lists, fails)} })
        : lists \in {GetLists(rec, c, fails)} })

\* get_count, the loop over the searches: count.playtime of the None of a
\* failed count raises
RECURSIVE CountLoop(_, _)
CountLoop(searches, fails) ==
  IF searches = <<>>
  THEN [playtime |-> 0, songs |-> 0, calls |-> <<>>, raised |-> FALSE]
  ELSE LET call == Call("count", "", Head(searches), "get_count")
       IN IF "count" \in fails /\ ~FailureGivesList("count")
          THEN [ playtime |-> 0, songs |-> 0, calls |-> <<call>>,
                 raised |-> TRUE ]
          ELSE The({ [ playtime |-> MpdCountAnswer(Head(searches)).playtime
                                    + rest.playtime,
                       songs |-> MpdCountAnswer(Head(searches)).songs
                                 + rest.songs,
                       calls |-> <<call>> \o rest.calls,
                       raised |-> rest.raised ]
                     : rest \in {CountLoop(Tail(searches), fails)} })

\* get_count
GetCount(rec, c, fails) ==
  The({ The({ [ ret |-> IF loop.raised THEN <<>>
                        ELSE <<loop.playtime, loop.songs>>,
                cache |-> lists.cache, calls |-> lists.calls \o loop.calls,
                reached |-> lists.reached, raised |-> loop.raised ]
              : loop \in {CountLoop(lists.ret, fails)} })
        : lists \in {GetLists(rec, c, fails)} })

\* an invalidate_cache that leaves cache_genres as it is
InvalidatedButGenres(c) ==
  [FreshCache EXCEPT !.cache_genres = c.cache_genres]

\* invalidate_cache
Invalidated(c) == FreshCache

\* SongRecord(genre=g, artist=a, album=b, year=y)
SongRecord(g, a, b, y) == [genre |-> g, artist |-> a, album |-> b, year |-> y]

\* the SongRecords the views ask about: no field, fields with a value some
\* songs carry (in another case, too), with Untagged, with Various Artists,
\* and with a value no song carries
Queries ==
  { EmptyRecord,
    SongRecord(<<"f">>, NoneText, NoneText, NoneText),
    SongRecord(NOTAG, NoneText, NoneText, NoneText),
    SongRecord(<<"o">>, <<"b", "a">>, NoneText, NoneText),
    SongRecord(<<"f">>, VARIOUS_ARTISTS, NoneText, NoneText),
    SongRecord(NoneText, <<"b", "a">>, <<"a">>, NoneText),
    SongRecord(NoneText, VARIOUS_ARTISTS, <<"a">>, <<"1", "0">>),
    SongRecord(NoneText, NoneText, <<"r">>, <<"1", "0">>),
    SongRecord(NOTAG, <<"f", "o">>, NoneText, NOTAG),
    SongRecord(<<"F">>, <<"b", "a">>, <<"a">>, <<"1", "0">>) }

\* the adapter commands that fail at transport level during one call
FailSets == { {}, {"list"}, {"count", "search"} }

\* the itemtype the views pass to get_list_items
ItemTypes == { "album" }

\* how many unconstrained mpd.list calls for a tag get_list made
RECURSIVE Enumerations(_, _)
Enumerations(calls, tag) ==
  IF calls = <<>> THEN 0
  ELSE (IF /\ Head(calls).cmd = "list"
           /\ Head(calls).tag = tag
           /\ Head(calls).args = <<>>
           /\ Head(calls).from = "get_list"
        THEN 1 ELSE 0)
       + Enumerations(Tail(calls), tag)

\* what is kept of a call of a query method
Outcome(op, q, r) ==
  [ op |-> op, query |-> q, ret |-> r.ret, raised |-> r.raised,
    calls |-> r.calls, reached |-> r.reached,
    fresh |-> (out.op = "invalidate_cache"),
    listed |-> [t \in DOMAIN out.listed |->
                  out.listed[t] + Enumerations(r.calls, t)] ]

searchVars == <<lib, search, thread, idle, mpc, mloc, hist, ninputs, nconn>>

CacheInit ==
  /\ lib = [ visible |-> FALSE, connected |-> TRUE, entry |-> <<>>,
             last_search_num |-> 0, timeout |-> 0, timers |-> {},
             search_thread |-> 0, nthreads |-> 0 ]
  /\ search = FreshSearch
  /\ thread = NoThread
  /\ idle = <<>>
  /\ mpc = "loop"
  /\ mloc = NoLocals
  /\ hist = FreshHist
  /\ ninputs = 0
  /\ nconn = 0
  /\ cache = FreshCache
  /\ out = NoOut
  /\ views = FreshViews
  /\ albums = NoAlbums
  /\ mpdsongs = NoSongs

InvalidateCache ==
  /\ cache' = Invalidated(cache)
  /\ out' = [NoOut EXCEPT !.op = "invalidate_cache"]
  /\ UNCHANGED searchVars
  /\ UNCHANGED <<views, albums, mpdsongs>>

CallGetLists(q, fails) ==
  /\ \E r \in {GetLists(q, cache, fails)} :
        /\ cache' = r.cache
        /\ out' = Outcome("get_lists", q, r)
  /\ UNCHANGED searchVars
  /\ UNCHANGED <<views, albums, mpdsongs>>

CallGetCount(q, fails) ==
  /\ \E r \in {GetCount(q, cache, fails)} :
        /\ cache' = r.cache
        /\ out' = Outcome("get_count", q, r)
  /\ UNCHANGED searchVars
  /\ UNCHANGED <<views, albums, mpdsongs>>

CallGetListItems(itemtype, q, fails) ==
  /\ \E r \in {GetListItems(itemtype, q, TRUE, cache, fails)} :
        /\ cache' = r.cache
        /\ out' = Outcome("get_list_items", q, r)
  /\ UNCHANGED searchVars
  /\ UNCHANGED <<views, albums, mpdsongs>>

CallGetSearchItems(q, fails) ==
  /\ \E r \in {GetSearchItems(q, cache, fails)} :
        /\ cache' = r.cache
        /\ out' = Outcome("get_search_items", q, r)
  /\ UNCHANGED searchVars
  /\ UNCHANGED <<views, albums, mpdsongs>>

CacheNext ==
  \/ InvalidateCache
  \/ \E q \in Queries, fails \in FailSets : CallGetLists(q, fails)
  \/ \E q \in Queries, fails \in FailSets : CallGetCount(q, fails)
  \/ \E t \in ItemTypes, q \in Queries, fails \in FailSets :
       CallGetListItems(t, q, fails)
  \/ \E q \in Queries, fails \in FailSets : CallGetSearchItems(q, fails)

CacheSpec == CacheInit /\ [][CacheNext]_vars

\* ------------------------------------------------------------------ C16
\* the place of a tag in the order genre, artist, album, date
TagRank(tag) ==
  IF tag = "genre" THEN 1 ELSE IF tag = "artist" THEN 2
  ELSE IF tag = "album" THEN 3 ELSE 4

InOrder(args) ==
  \A i, j \in 1..Len(args) : i < j => TagRank(args[i][1]) < TagRank(args[j][1])

\* C16: every constraint tuple made from a SongRecord, those of get_lists
\* (returned, and handed to mpd.list and mpd.count) and those of
\* get_searches (handed to mpd.search), names its tags in the order genre,
\* artist, album, date.
C16_FixedConstraintOrder ==
  /\ \A k \in 1..Len(out.calls) : InOrder(out.calls[k].args)
  /\ out.op = "get_lists" => \A k \in 1..Len(out.ret) : InOrder(out.ret[k])


\* ------------------------------------------------------------------ C17
\* the methods that resolve a SongRecord through get_lists
Resolutions == {"get_lists", "get_count", "get_list_items"}

\* the last call had get_list enumerate the tag
ListedNow(tag) ==
  \E k \in 1..Len(out.calls) :
    out.calls[k] = Call("list", tag, <<>>, "get_list")

\* the value the last query names for a tag is one that get_list looks up
\* in the cached list
LookedUp(tag) ==
  /\ RecGet(out.query, tag) \notin {NoneText, NOTAG}
  /\ ~(tag = "artist" /\ RecGet(out.query, tag) = VARIOUS_ARTISTS)

\* C17 as stated: the resolution that follows invalidate_cache issues
\* mpd.list(tag) for every tag the query names a value for.
C17_InvalidationForcesEnumeration ==
  (out.fresh /\ out.op \in Resolutions) =>
    \A k \in 1..Len(ListOrder) :
      RecGet(out.query, ListOrder[k]) # NoneText => ListedNow(ListOrder[k])

\* C17 amended: the resolution that follows invalidate_cache issues
\* mpd.list(tag) for every tag that it comes to (no earlier field ended it
\* with no match) and for which the query names a value other than
\* Untagged and, for artist, other than Various Artists.
C17_InvalidationForcesLookupEnumeration ==
  (out.fresh /\ out.op \in Resolutions) =>
    \A k \in 1..Len(out.reached) :
      LookedUp(out.reached[k]) => ListedNow(out.reached[k])

\* right after invalidate_cache a query for a genre and an artist had both
\* lists enumerated again
C17_Witness ==
  /\ out.fresh /\ out.op = "get_count"
  /\ out.query.genre = <<"F">> /\ out.query.artist = <<"b", "a">>
  /\ ListedNow("genre") /\ ListedNow("artist")
  /\ out.listed["genre"] = 1

\* ------------------------------------------------------------------ C18
\* the '' entries of a cached list
Sentinels(list) == { i \in 1..Len(list) : list[i] = <<>> }

\* C18: from one invalidate_cache to the next, get_lists enumerates each
\* tag at most once, however many queries are resolved and also when the
\* enumeration gave nothing; a cached list once set stays as it is until
\* invalidate_cache, and holds '' exactly once.
C18_Memoization ==
  [][ \A k \in 1..Len(ListOrder) :
        LET tag == ListOrder[k]
        IN /\ out'.listed[tag] <= 1
           /\ CacheGet(cache', tag) # NoneList =>
                Cardinality(Sentinels(CacheGet(cache', tag))) = 1
           /\ (CacheGet(cache, tag) # NoneList
                 /\ out'.op # "invalidate_cache") =>
                CacheGet(cache', tag) = CacheGet(cache, tag) ]_vars

\* a genre was asked for again after its enumeration had given nothing: no
\* adapter call was made, the list is the one that was kept
C18_Witness ==
  /\ out.op = "get_lists" /\ ~out.fresh
  /\ out.query.genre = <<"f">>
  /\ cache.cache_genres = << <<>> >>
  /\ out.listed["genre"] = 1
  /\ out.calls = <<>>

\* ------------------------------------------------------------------ C19
\* the tags that get_lists goes through after a tag
Later(tag) ==
  { ListOrder[j] : j \in { i \in 1..Len(ListOrder) :
                             TagRank(ListOrder[i]) > TagRank(tag) } }

\* the last query names for the tag a value that is not Untagged and equals
\* no item of the cached list when case is ignored
Unmatched(tag) ==
  LET v == RecGet(out.query, tag)
      list == CacheGet(cache, tag)
  IN /\ v \notin {NoneText, NOTAG}
     /\ list # NoneList =>
          \A i \in 1..Len(list) : Lower(list[i]) # Lower(v)

\* the resolution ended with no constraint and left the later tags alone
ShortCircuited(tag) ==
  /\ ~out.raised
  /\ \A k \in 1..Len(out.reached) : out.reached[k] \notin Later(tag)
  /\ \A k \in 1..Len(out.calls) :
       /\ out.calls[k].cmd # "count"
       /\ out.calls[k].cmd = "list" => out.calls[k].tag \notin Later(tag)
  /\ out.op = "get_count" => out.ret = <<0, 0>>
  /\ out.op # "get_count" => out.ret = <<>>

\* C19 as stated: when the query names for a tag a value that is neither
\* Untagged nor, without case, a cached value, get_lists gives [] and does
\* not come to the later tags, get_count gives (0, 0) and calls no count,
\* get_list_items gives [].
C19_NoMatchShortCircuit ==
  out.op \in Resolutions =>
    \A k \in 1..Len(ListOrder) :
      Unmatched(ListOrder[k]) => ShortCircuited(ListOrder[k])

\* C19 amended: the same, for a value that is neither Untagged nor, for
\* artist, Various Artists, nor, without case, a cached value.
C19_NoMatchShortCircuitButVarious ==
  out.op \in Resolutions =>
    \A k \in 1..Len(ListOrder) :
      (Unmatched(ListOrder[k]) /\ LookedUp(ListOrder[k]))
        => ShortCircuited(ListOrder[k])

\* a count for a genre no song carries, and an artist: (0, 0), and the
\* artists were never asked for
C19_Witness ==
  /\ out.op = "get_count"
  /\ out.query.genre = <<"o">> /\ out.query.artist = <<"b", "a">>
  /\ cache.cache_genres \notin {NoneList, << <<>> >>}
  /\ out.ret = <<0, 0>>
  /\ out.reached = <<"genre">>
  /\ cache.cache_artists = NoneList

\* ------------------------------------------------------------------ C20
\* C20: a transport failure of an adapter call is seen as an empty result:
\* get_count, get_search_items and get_list_items come to their end
\* without raising.
C20_TransportErrorsGiveEmptyResults == ~out.raised

\* ------------------------------------------- Various-Artists merge
\* the longest list handed to list_mark_various_artists_albums
MaxAlbums == 3

\* consts.NUM_ARTISTS_FOR_VA, read when the function runs
Thresholds == {2, 3}

\* what AlbumView._get_toplevel_data puts into a SongRecord: album, year and
\* path in combinations that agree in all three, in all but the case of
\* the album, in all but the path, in all but the year, and in nothing
AlbumKeys ==
  { <<<<"b">>, <<"o">>, <<"a">>>>, <<<<"B">>, <<"o">>, <<"a">>>>,
    <<<<"b">>, <<"o">>, <<"b">>>>, <<<<"b">>, NOTAG, <<"a">>>>,
    <<<<"f">>, <<"o">>, <<"a">>>> }

\* the artist tags, one of them the text the merge itself writes
AlbumArtists == { <<"a">>, <<"b">>, VARIOUS_ARTISTS }

AlbumRecords ==
  { [ album |-> k[1], year |-> k[2], path |-> k[3], artist |-> a ]
    : k \in AlbumKeys, a \in AlbumArtists }

\* the lists of at most n album records
RECURSIVE AlbumLists(_)
AlbumLists(n) ==
  IF n = 0 THEN { <<>> }
  ELSE { <<>> } \cup { <<r>> \o l : r \in AlbumRecords, l \in AlbumLists(n - 1) }

\* a record of the list, with the position it had when handed in
Numbered(list) ==
  [ k \in 1..Len(list) |->
      [ album |-> list[k].album, year |-> list[k].year,
        path |-> list[k].path, artist |-> list[k].artist, src |-> k ] ]

\* lines 40-42: the two records agree in album (lowered), year and path
SameAlbum(a, b) ==
  /\ Lower(a.album) = Lower(b.album)
  /\ a.year = b.year
  /\ a.path = b.path

\* lines 53-54 with the path compared as well
SameAlbumYearPath(a, b) == SameAlbum(a, b)

\* lines 53-54: the two records agree in album (lowered) and year
SameAlbumYear(a, b) ==
  /\ Lower(a.album) = Lower(b.album)
  /\ a.year = b.year

\* albums.pop taking the record at i
RemovedFirst(i, k) == i

\* albums.pop(i + j): the position that goes
Removed(i, k) == k

\* albums.pop at one of the positions i < k; gone remembers the position the
\* record had when handed in and the one of the record it was compared with
Pop(st, i, k) ==
  The({ [ st EXCEPT
            !.albums = SubSeq(@, 1, r - 1) \o SubSeq(@, r + 1, Len(@)),
            !.gone = @ \cup { << st.albums[r].src,
                                 st.albums[i + k - r].src >> } ]
        : r \in {Removed(i, k)} })

\* albums[k] is an index of the list as it is now (k counted from 1)
InRange(st, k) == k >= 1 /\ k <= Len(st.albums)

\* one more turn of one of the three loops
Turn(st) == [ st EXCEPT !.turns = @ + 1 ]

\* IndexError: list index out of range
IndexError(st) == [ st EXCEPT !.raised = TRUE ]

\* lines 39-48: the loop over j; various is various_artists after it
RECURSIVE Window(_, _, _, _)
Window(st, i, j, n) ==
  IF j > n - 1 THEN [ st |-> st, various |-> FALSE ]
  ELSE IF ~InRange(st, i) \/ ~InRange(st, i + j)
       THEN [ st |-> IndexError(Turn(st)), various |-> FALSE ]
  ELSE IF ~SameAlbum(st.albums[i], st.albums[i + j])
       THEN [ st |-> Turn(st), various |-> FALSE ]
  ELSE IF st.albums[i].artist = st.albums[i + j].artist
       THEN [ st |-> Pop(Turn(st), i, i + j), various |-> FALSE ]
  ELSE IF j = n - 1 THEN [ st |-> Turn(st), various |-> TRUE ]
  ELSE Window(Turn(st), i, j + 1, n)

\* line 50
Mark(st, i) ==
  [ st EXCEPT !.albums[i].artist = VARIOUS_ARTISTS,
              !.marked = @ \cup { st.albums[i].src } ]

\* lines 51-57: j stays 1, the record after i goes while it agrees
RECURSIVE Absorb(_, _)
Absorb(st, i) ==
  IF i + 1 > Len(st.albums) THEN st
  ELSE IF ~InRange(st, i) THEN IndexError(Turn(st))
  ELSE IF SameAlbumYear(st.albums[i], st.albums[i + 1])
       THEN Absorb(Pop(Turn(st), i, i + 1), i)
  ELSE Turn(st)

\* lines 35-57: the loop over i (counted from 1), which runs over the
\* length the list had at the start and breaks on the length it has now
\* line 36 with the length the list had when the loop over i began
LengthAtStart(st, len) == len

\* line 36: len(albums), read anew in every turn of the loop over i
LengthNow(st, len) == Len(st.albums)

RECURSIVE MarkFrom(_, _, _, _)
MarkFrom(st, i, n, len) ==
  IF i > len \/ st.raised THEN st
  ELSE IF i + n - 1 > LengthNow(st, len) THEN Turn(st)
  ELSE The({ MarkFrom(IF w.various THEN Absorb(Mark(w.st, i), i) ELSE w.st,
                      i + 1, n, len)
             : w \in {Window(Turn(st), i, 1, n)} })

\* list_mark_various_artists_albums(albums) under the threshold n
ListMarkVariousArtistsAlbums(list, n) ==
  MarkFrom([ albums |-> Numbered(list), gone |-> {}, marked |-> {},
             raised |-> FALSE, turns |-> 0 ],
           1, n, Len(list))

mergeVars == <<lib, search, thread, idle, mpc, mloc, hist, ninputs, nconn,
               cache, out, views, mpdsongs>>

MergeInit ==
  /\ lib = [ visible |-> FALSE, connected |-> TRUE, entry |-> <<>>,
             last_search_num |-> 0, timeout |-> 0, timers |-> {},
             search_thread |-> 0, nthreads |-> 0 ]
  /\ search = FreshSearch
  /\ thread = NoThread
  /\ idle = <<>>
  /\ mpc = "loop"
  /\ mloc = NoLocals
  /\ hist = FreshHist
  /\ ninputs = 0
  /\ nconn = 0
  /\ cache = FreshCache
  /\ out = NoOut
  /\ views = FreshViews
  /\ albums \in { [ NoAlbums EXCEPT !.given = l, !.threshold = n ]
                  : l \in AlbumLists(MaxAlbums), n \in Thresholds }
  /\ mpdsongs = NoSongs

CallListMark ==
  /\ ~albums.called
  /\ \E r \in {ListMarkVariousArtistsAlbums(albums.given, albums.threshold)} :
        albums' = [ albums EXCEPT !.called = TRUE, !.result = r.albums,
                                  !.gone = r.gone, !.marked = r.marked,
                                  !.raised = r.raised, !.turns = r.turns ]
  /\ UNCHANGED mergeVars

MergeNext == CallListMark

MergeSpec == MergeInit /\ [][MergeNext]_vars

\* ------------------------------------------------------------------ C23
\* the record of the result that came from position k of the list handed in
Kept(k) == \E e \in 1..Len(albums.result) : albums.result[e].src = k

\* the position whose record stands for the one handed in at position k
Representative(k) ==
  IF Kept(k) THEN k ELSE The({ g[2] : g \in { h \in albums.gone : h[1] = k } })

\* the artist, in the result, of the record handed in at position k
ResultArtist(k) ==
  The({ albums.result[e].artist
        : e \in { x \in 1..Len(albums.result) : albums.result[x].src = k } })

\* positions p..q of the list handed in hold at least threshold records
\* that agree in album (case aside), year and path and differ in artist
IsRun(p, q) ==
  /\ q - p + 1 >= albums.threshold
  /\ \A k, m \in p..q :
       /\ SameAlbum(albums.given[k], albums.given[m])
       /\ k # m => albums.given[k].artist # albums.given[m].artist

\* C23: every run of at least NUM_ARTISTS_FOR_VA consecutive records that
\* agree in album (case aside), year and path and differ pairwise in
\* artist ends up as one record of the result, and that record's artist
\* is 'Various Artists'.
C23_VariousArtistsCollapse ==
  albums.called =>
    \A p, q \in 1..Len(albums.given) :
      IsRun(p, q) =>
        /\ \A k \in p..q : Representative(k) = Representative(p)
        /\ Kept(Representative(p))
        /\ ResultArtist(Representative(p)) = VARIOUS_ARTISTS

\* ------------------------------------------------------------------ C24
\* C24: in the result no two neighbours agree in album (case aside), year,
\* path and artist, and two equal records handed in under the threshold 2
\* come back as one record with the artist they had.
C24_DuplicatesRemoved ==
  albums.called =>
    /\ \A e \in 1..(Len(albums.result) - 1) :
         ~ ( /\ SameAlbum(albums.result[e], albums.result[e + 1])
             /\ albums.result[e].artist = albums.result[e + 1].artist )
    /\ ( /\ Len(albums.given) = 2
         /\ albums.given[1] = albums.given[2]
         /\ albums.threshold = 2 )
       => ( /\ Len(albums.result) = 1
            /\ albums.result[1].artist = albums.given[1].artist )

\* ------------------------------------------------------------------ C25
\* C25: the result is the list handed in with some records left out, in
\* the order they had; a kept record has the album, year and path it came
\* with and either its own artist or 'Various Artists'; every record left
\* out was compared with an earlier record that is kept.
C25_OnlyDeletesAndMarks ==
  albums.called =>
    /\ \A e \in 1..Len(albums.result) :
         /\ albums.result[e].src \in 1..Len(albums.given)
         /\ e > 1 => albums.result[e - 1].src < albums.result[e].src
         /\ albums.result[e].album = albums.given[albums.result[e].src].album
         /\ albums.result[e].year = albums.given[albums.result[e].src].year
         /\ albums.result[e].path = albums.given[albums.result[e].src].path
         /\ albums.result[e].artist \in
              { albums.given[albums.result[e].src].artist, VARIOUS_ARTISTS }
    /\ \A k \in 1..Len(albums.given) :
         ~Kept(k) => \E g \in albums.gone :
                        g[1] = k /\ g[2] < k /\ Kept(g[2])

\* a record was marked, another was left out, and a third was kept as it
\* came
C25_Witness ==
  /\ albums.called
  /\ albums.marked # {}
  /\ albums.gone # {}
  /\ \E e \in 1..Len(albums.result) :
       /\ albums.result[e].src \notin albums.marked
       /\ albums.result[e].artist # VARIOUS_ARTISTS

\* ------------------------------------------------------------------ C26
\* the record of the result at e follows one it agrees with in album
\* (case aside) and year
FollowsSameAlbumYear(e) ==
  /\ Lower(albums.result[e - 1].album) = Lower(albums.result[e].album)
  /\ albums.result[e - 1].year = albums.result[e].year

\* C26: the record that follows a 'Various Artists' record in the result
\* differs from it in album or in year.
C26_AbsorptionAfterAnyVarious ==
  albums.called =>
    \A e \in 2..Len(albums.result) :
      albums.result[e - 1].artist = VARIOUS_ARTISTS
        => ~FollowsSameAlbumYear(e)

\* C26: once the merge has marked a record, the records handed in right
\* after it that agree with it in album (case aside) and year are all left
\* out, whatever their artist and path, and the record that follows a
\* marked record in the result differs from it in album or in year.
C26_AbsorptionAfterMarking ==
  albums.called =>
    /\ \A e \in 2..Len(albums.result) :
         albums.result[e - 1].src \in albums.marked
           => ~FollowsSameAlbumYear(e)
    /\ \A m \in albums.marked, k \in 1..Len(albums.given) :
         ( /\ k > m
           /\ \A x \in m..k :
                /\ Lower(albums.given[x].album) = Lower(albums.given[m].album)
                /\ albums.given[x].year = albums.given[m].year )
         => ~Kept(k)

\* a record with another path and another artist went into a marked one
C26_Witness ==
  /\ albums.called
  /\ \E g \in albums.gone :
       /\ g[2] \in albums.marked
       /\ albums.given[g[1]].path # albums.given[g[2]].path
       /\ albums.given[g[1]].artist # albums.given[g[2]].artist

\* ------------------------------------------------------------------ C30
\* the values of a song's fields joined by spaces
RowText(id) ==
  Catalog[id].file \o <<" ">> \o Catalog[id].title \o <<" ">>
    \o Catalog[id].artist \o <<" ">> \o Catalog[id].genre \o <<" ">>
    \o Catalog[id].album \o <<" ">> \o Catalog[id].date

\* the text of a row the tokens are looked for in
TargetText(id, by) == IF by = "any" THEN RowText(id) ELSE RowGet(id, by)

\* every token of the sequence occurs in the row's text, case aside
AllTokensIn(id, by, toks) ==
  \A k \in 1..Len(toks) :
    Contains(Lower(TargetText(id, by)), Lower(toks[k]))

\* the rows of the list being filtered whose text holds every token
Narrowed(toks) ==
  SelectSeq(thread.rows,
            LAMBDA id : AllTokensIn(id, Term(search.search_num), toks))

\* the tokens in the opposite order
Reversed(toks) == [k \in 1..Len(toks) |-> toks[Len(toks) + 1 - k]]

\* the step delivers its matches: it is not the suppressed sub-search
Delivers ==
  ~ ( /\ search.subsearch
      /\ Len(Narrowed(Split(search.search_input)))
           = search.search_previous_count )

\* C30: filter_search_data runs to its end, and the rows it delivers are
\* the rows of the list it filters, in their order, whose field (for the
\* field 'any': whose field values joined) holds every space-separated
\* token of the input, case aside; the tokens in the opposite order
\* select the same rows.
C30_Narrowing ==
  [][ thread.wpc = "filter" =>
        /\ thread'.wpc = "done"
        /\ Delivers =>
             /\ Len(idle') = Len(idle) + 1
             /\ idle'[Len(idle')].rows = Narrowed(Split(search.search_input))
        /\ Narrowed(Reversed(Split(search.search_input)))
             = Narrowed(Split(search.search_input)) ]_vars

\* the same for every field but 'any'
C30_NarrowingOfOneField ==
  [][ (thread.wpc = "filter" /\ Term(search.search_num) # "any") =>
        /\ thread'.wpc = "done"
        /\ Delivers =>
             /\ Len(idle') = Len(idle) + 1
             /\ idle'[Len(idle')].rows = Narrowed(Split(search.search_input))
        /\ Narrowed(Reversed(Split(search.search_input)))
             = Narrowed(Split(search.search_input)) ]_vars

\* ---------------------------------------------------------------- views
\* SongRecord(genre=g, artist=a, album=b, year=y, path=p)
Record(g, a, b, y, p) ==
  [genre |-> g, artist |-> a, album |-> b, year |-> y, path |-> p]

\* SongRecord()
NoRecord == Record(NoneText, NoneText, NoneText, NoneText, NoneText)

\* SongRecord(path=p)
PathRecord(p) == Record(NoneText, NoneText, NoneText, NoneText, p)

\* the position of the last '/' of a path, 0 when it has none
LastSlash(p) ==
  IF \E k \in 1..Len(p) : p[k] = "/"
  THEN CHOOSE k \in 1..Len(p) :
         p[k] = "/" /\ \A j \in (k + 1)..Len(p) : p[j] # "/"
  ELSE 0

\* str.rstrip('/')
RECURSIVE RStripSlash(_)
RStripSlash(p) ==
  IF p # <<>> /\ p[Len(p)] = "/" THEN RStripSlash(SubSeq(p, 1, Len(p) - 1))
  ELSE p

\* os.path.dirname: the part up to the last '/', its trailing slashes
\* taken off unless it is made of slashes only
Dirname(p) ==
  The({ IF head # <<>> /\ \E k \in 1..Len(head) : head[k] # "/"
        THEN RStripSlash(head) ELSE head
        : head \in {SubSeq(p, 1, LastSlash(p))} })

\* os.path.basename
Basename(p) == SubSeq(p, LastSlash(p) + 1, Len(p))

\* misc.lower_no_the: the text in lower case without a leading 'the '
LowerNoThe(s) ==
  The({ IF Len(l) >= 4 /\ SubSeq(l, 1, 4) = <<"t", "h", "e", " ">>
        THEN SubSeq(l, 5, Len(l)) ELSE l
        : l \in {Lower(s)} })

\* a row of a view: the sort key, the row type, the SongRecord of the row
\* and, for the rows that show them, the song count and the playing time
Row(key, type, data, songs, playtime) ==
  [ key |-> key, type |-> type, data |-> data, songs |-> songs,
    playtime |-> playtime ]

\* bd.sort(key=...) on the sort keys: stable
RECURSIVE SortedRows(_)
SortedRows(rows) ==
  IF rows = <<>> THEN <<>>
  ELSE The({ The({ SubSeq(rest, 1, k) \o <<Head(rows)>>
                     \o SubSeq(rest, k + 1, Len(rest))
                   : k \in { Cardinality({ i \in 1..Len(rest) :
                               Before(rest[i].key, Head(rows).key) }) } })
             : rest \in {SortedRows(Tail(rows))} })

\* the adapter commands that fail at transport level during one call of a
\* view
ViewFailSets == { {}, {"list", "lsinfo"}, {"count", "search", "listallinfo"} }

\* the directory the MPD server lists for a path: '/' is the music root
MusicDir(path) == IF path = <<"/">> THEN <<>> ELSE path

\* the file lies in the directory or below it
Under(dir, file) ==
  \/ dir = <<>>
  \/ /\ Len(file) > Len(dir) + 1
     /\ SubSeq(file, 1, Len(dir)) = dir
     /\ file[Len(dir) + 1] = "/"

\* the length of the file's path down to its entry in the directory: the
\* whole path for a file of the directory itself
EntryLen(dir, file) ==
  The({ IF \E k \in from..Len(file) : file[k] = "/"
        THEN (CHOOSE k \in from..Len(file) :
                file[k] = "/" /\ \A j \in from..(k - 1) : file[j] # "/") - 1
        ELSE Len(file)
        : from \in {IF dir = <<>> THEN 1 ELSE Len(dir) + 2} })

\* what the MPD server answers to "lsinfo <path>": the directories and the
\* files of the directory; nothing for a path that is no directory
MpdLsinfoAnswer(path) ==
  The({ Distinct([ k \in 1..Len(ids) |->
                     IF EntryLen(MusicDir(path), Catalog[ids[k]].file)
                          = Len(Catalog[ids[k]].file)
                     THEN [ kind |-> "file", path |-> Catalog[ids[k]].file,
                            id |-> ids[k] ]
                     ELSE [ kind |-> "directory",
                            path |-> SubSeq(Catalog[ids[k]].file, 1,
                                       EntryLen(MusicDir(path),
                                                Catalog[ids[k]].file)),
                            id |-> 0 ] ])
        : ids \in { SelectSeq([i \in SongIds |-> i],
                      LAMBDA id : Under(MusicDir(path), Catalog[id].file)) } })

\* a result of a method of a view: the rows, the dimension caches after it,
\* the number of adapter calls it made, and whether it raised
Result(rows, c, ncalls, raised) ==
  [rows |-> rows, cache |-> c, ncalls |-> ncalls, raised |-> raised]

\* FilesystemView._get_data, lines 747-759: the rows for the entries of
\* mpd.lsinfo(path), sorted
FilesystemRows(path, fails) ==
  The({ SortedRows([ k \in 1..Len(entries) |->
                       IF entries[k].kind = "directory"
                       THEN Row(<<"d">> \o Lower(Basename(entries[k].path)),
                                "folder", PathRecord(entries[k].path), 0, 0)
                       ELSE Row(<<"f">> \o Lower(entries[k].path),
                                "song", PathRecord(entries[k].path), 0, 0) ])
        : entries \in { IF "lsinfo" \in fails THEN <<>>
                        ELSE MpdLsinfoAnswer(path) } })


\* a result with the calls of one more method of the dimension cache
AfterCall(st, r, rows) ==
  Result(rows, r.cache, st.ncalls + Len(r.calls), st.raised \/ r.raised)

\* a list that is left without the Untagged item
WithoutNotag(items) == items

\* `if not NOTAG in items: items.append(NOTAG)`
WithNotag(items) ==
  IF \E k \in 1..Len(items) : items[k] = NOTAG THEN items
  ELSE Append(items, NOTAG)

\* the SongRecord with one more field set
WithField(rec, tag, v) ==
  IF tag = "genre" THEN [rec EXCEPT !.genre = v]
  ELSE IF tag = "artist" THEN [rec EXCEPT !.artist = v]
  ELSE IF tag = "album" THEN [rec EXCEPT !.album = v]
  ELSE IF tag = "path" THEN [rec EXCEPT !.path = v]
  ELSE [rec EXCEPT !.year = v]

\* the loops of lines 601-609, 873-881 and 929-937: for each value the
\* count of the group, and a row for a group that has songs; unpacking the
\* result of a count that failed raises
RECURSIVE GroupRows(_, _, _, _, _)
GroupRows(values, base, tag, st, fails) ==
  IF values = <<>> \/ st.raised THEN st
  ELSE The({ GroupRows(Tail(values), base, tag,
               AfterCall(st, cnt,
                 IF ~cnt.raised /\ cnt.ret[2] > 0
                 THEN Append(st.rows,
                        Row(LowerNoThe(Head(values)), tag,
                            WithField(base, tag, Head(values)),
                            cnt.ret[2], cnt.ret[1]))
                 ELSE st.rows),
               fails)
             : cnt \in { GetCount(WithField(base, tag, Head(values)),
                                  st.cache, fails) } })

\* bd.sort(...) at the end of a method, when it got there
SortedResult(r) ==
  IF r.raised THEN r ELSE [r EXCEPT !.rows = SortedRows(r.rows)]

\* ArtistView._get_toplevel_data and GenreView._get_toplevel_data after the
\* check of self.cache, lines 869-882 and 925-938
TagTopLevel(tag, c, fails) ==
  The({ SortedResult(GroupRows(WithNotag(items.ret), NoRecord, tag,
                               Result(<<>>, items.cache, Len(items.calls),
                                      items.raised),
                               fails))
        : items \in {GetListItems(tag, NoRecord, TRUE, c, fails)} })

\* get_multicd_album_root_dir: the directory above a directory that holds
\* one disc of an album ("cd" and a number), else the directory itself
MulticdAlbumRootDir(path) ==
  The({ IF /\ Len(name) >= 3
           /\ Lower(SubSeq(name, 1, 2)) = <<"c", "d">>
           /\ \A k \in 3..Len(name) : name[k] \in {"0", "1", "9"}
        THEN Dirname(path) ELSE path
        : name \in {Basename(path)} })

\* `tag in album_info` / album_info.get(tag, NOTAG) on a dict of
\* listallinfo, which holds the tags the song has
InfoGet(id, tag) ==
  IF RowGet(id, tag) = <<>> THEN NOTAG ELSE RowGet(id, tag)

\* lines 796-805: the SongRecords of the songs that have an album tag
AlbumInfos ==
  The({ [ k \in 1..Len(ids) |->
            Record(NoneText, InfoGet(ids[k], "artist"),
                   Catalog[ids[k]].album, InfoGet(ids[k], "date"),
                   MulticdAlbumRootDir(Dirname(Catalog[ids[k]].file))) ]
        : ids \in { SelectSeq([i \in SongIds |-> i],
                              LAMBDA id : Catalog[id].album # <<>>) } })

\* lines 806-809
WithUntaggedAlbum(list) ==
  IF \E k \in 1..Len(list) : list[k].album = NOTAG THEN list
  ELSE Append(list, Record(NoneText, NoneText, NOTAG, NoneText, NoneText))

LowerField(t) == IF t = NoneText THEN t ELSE Lower(t)

\* misc.remove_list_duplicates(albums, case=False) on SongRecords: of the
\* records that are equal without case the first is kept
RECURSIVE DistinctRecordsNoCase(_)
DistinctRecordsNoCase(seq) ==
  IF seq = <<>> THEN <<>>
  ELSE The({ IF \E i \in 1..Len(front) :
                  \A f \in DOMAIN front[i] :
                    LowerField(front[i][f]) = LowerField(seq[Len(seq)][f])
             THEN front ELSE Append(front, seq[Len(seq)])
             : front \in {DistinctRecordsNoCase(SubSeq(seq, 1, Len(seq) - 1))} })

\* line 811: the SongRecords list_mark_various_artists_albums leaves
MarkedAlbums(list, n) ==
  The({ [ k \in 1..Len(m.albums) |->
            Record(NoneText, m.albums[k].artist, m.albums[k].album,
                   m.albums[k].year, m.albums[k].path) ]
        : m \in {ListMarkVariousArtistsAlbums(list, n)} })

\* lines 813-829: a row for each album that has songs
RECURSIVE AlbumRows(_, _, _)
AlbumRows(list, st, fails) ==
  IF list = <<>> \/ st.raised THEN st
  ELSE The({ AlbumRows(Tail(list),
               AfterCall(st, cnt,
                 IF ~cnt.raised /\ cnt.ret[2] > 0
                 THEN Append(st.rows,
                        Row(LowerNoThe(Head(list).album), "album", Head(list),
                            cnt.ret[2], cnt.ret[1]))
                 ELSE st.rows),
               fails)
             : cnt \in {GetCount(Head(list), st.cache, fails)} })

\* AlbumView._get_toplevel_data after the check of self.cache, lines
\* 794-830, under the threshold n; iterating the None of a listallinfo
\* that failed raises
AlbumTopLevel(c, fails, n) ==
  IF "listallinfo" \in fails /\ ~FailureGivesList("listallinfo")
  THEN Result(<<>>, c, 1, TRUE)
  ELSE SortedResult(
         AlbumRows(MarkedAlbums(
                     DistinctRecordsNoCase(WithUntaggedAlbum(AlbumInfos)), n),
                   Result(<<>>, c, 1, FALSE), fails))


\* str(song.get('disc', 99)).zfill(2) and the same for the track: a song
\* object holds 0 for a number the song does not carry
NoNumber == <<"0", "0">>

\* lines 690-700: the row of one song of the answer; the title when there
\* is one, else the file name, ends the sort key
SongRow(id) ==
  Row(<<"f">> \o NoNumber \o NoNumber
        \o (IF Catalog[id].title # <<>> THEN LowerNoThe(Catalog[id].title)
            ELSE Lower(Catalog[id].file)),
      "song", PathRecord(Catalog[id].file), 0, 0)

\* LibraryView._get_data_songs
GetDataSongs(rec, c, fails) ==
  The({ IF found.raised
        THEN Result(<<>>, found.cache, Len(found.calls), TRUE)
        ELSE Result([k \in 1..Len(found.ret[1]) |-> SongRow(found.ret[1][k])],
                    found.cache, Len(found.calls), FALSE)
        : found \in {GetSearchItems(rec, c, fails)} })

\* LibraryView._get_artists_data
GetArtistsData(rec, c, fails) ==
  IF rec.genre = NoneText THEN Result(<<>>, c, 0, FALSE)
  ELSE The({ IF artists.raised \/ Len(artists.ret) = 0
             THEN Result(<<>>, artists.cache, Len(artists.calls),
                         artists.raised)
             ELSE GroupRows(WithNotag(artists.ret),
                            Record(rec.genre, NoneText, NoneText, NoneText,
                                   NoneText),
                            "artist",
                            Result(<<>>, artists.cache, Len(artists.calls),
                                   FALSE),
                            fails)
             : artists \in {GetListItems("artist", rec, TRUE, c, fails)} })

\* lines 640-642
OrderedYear(year) == IF year = NOTAG THEN <<"9", "9", "9", "9">> ELSE year

\* lines 630-645: the count of one album of one year and, when it has
\* songs, its row; files[0] of an empty list raises
AlbumYearRow(st, data, cnt, fails) ==
  IF cnt.raised \/ cnt.ret[2] = 0 THEN AfterCall(st, cnt, st.rows)
  ELSE The({ IF files.raised \/ files.ret = <<>>
             THEN Result(st.rows, files.cache,
                         st.ncalls + Len(cnt.calls) + Len(files.calls), TRUE)
             ELSE Result(Append(st.rows,
                           Row(OrderedYear(data.year) \o LowerNoThe(data.album),
                               "album",
                               [data EXCEPT !.path = Dirname(files.ret[1])],
                               cnt.ret[2], cnt.ret[1])),
                         files.cache,
                         st.ncalls + Len(cnt.calls) + Len(files.calls), FALSE)
             : files \in {GetListItems("file", data, TRUE, cnt.cache, fails)} })

\* lines 626-645: the loop over the years of one album
RECURSIVE YearRows(_, _, _, _)
YearRows(years, base, st, fails) ==
  IF years = <<>> \/ st.raised THEN st
  ELSE The({ The({ YearRows(Tail(years), base,
                            AlbumYearRow(st, data, cnt, fails), fails)
                   : cnt \in {GetCount(data, st.cache, fails)} })
             : data \in {[base EXCEPT !.year = Head(years)]} })

\* lines 619-645: the loop over the albums
RECURSIVE AlbumsLoop(_, _, _, _)
AlbumsLoop(list, rec, st, fails) ==
  IF list = <<>> \/ st.raised THEN st
  ELSE The({ The({ AlbumsLoop(Tail(list), rec,
                     IF years.raised THEN AfterCall(st, years, st.rows)
                     ELSE YearRows(WithNotag(years.ret), base,
                                   AfterCall(st, years, st.rows), fails),
                     fails)
                   : years \in {GetListItems("date", base, TRUE, st.cache,
                                             fails)} })
             : base \in { Record(rec.genre, rec.artist, Head(list), NoneText,
                                 NoneText) } })

\* lines 655-659: the songs of the artist that are in no album, after the
\* rows of the albums
WithNonAlbums(r, rec, fails) ==
  IF r.raised THEN r
  ELSE The({ Result(r.rows \o songs.rows, songs.cache,
                    r.ncalls + songs.ncalls, songs.raised)
             : songs \in { GetDataSongs(Record(rec.genre, rec.artist, NOTAG,
                                               NoneText, NoneText),
                                        r.cache, fails) } })

\* LibraryView._get_albums_data
GetAlbumsData(rec, c, fails) ==
  IF rec.artist = NoneText THEN Result(<<>>, c, 0, FALSE)
  ELSE The({ WithNonAlbums(
               SortedResult(
                 IF list.raised
                 THEN Result(<<>>, list.cache, Len(list.calls), TRUE)
                 ELSE AlbumsLoop(list.ret, rec,
                                 Result(<<>>, list.cache, Len(list.calls),
                                        FALSE),
                                 fails)),
               rec, fails)
             : list \in {GetListItems("album", rec, TRUE, c, fails)} })

\* LibraryView._get_data
GetDataBelow(rec, c, fails) ==
  SortedResult(
    IF rec.genre # NoneText /\ rec.artist = NoneText /\ rec.album = NoneText
    THEN GetArtistsData(rec, c, fails)
    ELSE IF rec.artist # NoneText /\ rec.album = NoneText
    THEN GetAlbumsData(rec, c, fails)
    ELSE GetDataSongs(rec, c, fails))


\* consts.NUM_ARTISTS_FOR_VA
NUM_ARTISTS_FOR_VA == 2

\* the SongRecord at the top of every view
RootRecord == PathRecord(<<"/">>)

\* the conditions under which get_data of a view gives the top level:
\* FilesystemView._get_data line 744, AlbumView.get_data line 786,
\* ArtistView.get_data line 861, GenreView.get_data line 917
IsTopLevel(v, rec) ==
  IF v = "filesystem" THEN rec.path = <<"/">>
  ELSE IF v = "album" THEN rec.album = NoneText
  ELSE IF v = "artist" THEN rec.artist = NoneText /\ rec.album = NoneText
  ELSE rec.genre = NoneText

\* a view that never finds its cache set
HasCacheNever(vc) == FALSE

\* `self.cache is not None`
HasCache(vc) == vc # NoneBd

\* FilesystemView._get_data after the check of self.cache: one lsinfo
FilesystemData(rec, c, fails) ==
  Result(FilesystemRows(rec.path, fails), c, 1, FALSE)

\* the top level of a view, worked out from the adapter
TopLevelData(v, rec, c, fails) ==
  IF v = "filesystem" THEN FilesystemData(rec, c, fails)
  ELSE IF v = "album" THEN AlbumTopLevel(c, fails, NUM_ARTISTS_FOR_VA)
  ELSE TagTopLevel(v, c, fails)

\* a result of get_data with the cache of the view after it
ViewResult(r, vc) ==
  [ rows |-> r.rows, cache |-> r.cache, ncalls |-> r.ncalls,
    raised |-> r.raised, top |-> vc ]

\* get_data of the view v, whose cache is vc: the top level from the cache
\* when it is set, else worked out and kept; the levels below worked out
GetData(v, rec, vc, c, fails) ==
  IF IsTopLevel(v, rec)
  THEN IF HasCache(vc) THEN ViewResult(Result(vc, c, 0, FALSE), vc)
       ELSE The({ ViewResult(r, IF r.raised THEN vc ELSE r.rows)
                  : r \in {TopLevelData(v, rec, c, fails)} })
  ELSE IF v = "filesystem" THEN ViewResult(FilesystemData(rec, c, fails), vc)
  ELSE ViewResult(GetDataBelow(rec, c, fails), vc)

\* LibraryView._get_parent
BaseParent(wd) ==
  PathRecord(IF wd.path # NoneText /\ wd.path # <<>> THEN Dirname(wd.path)
             ELSE <<"/">>)

\* a get_parent of the artist view that goes from an artist to its songs
\* in no album, and back
GetParentAround(v, wd) ==
  IF wd.album # NoneText
  THEN Record(NoneText, wd.artist, NoneText, NoneText, NoneText)
  ELSE Record(NoneText, wd.artist, NOTAG, NoneText, NoneText)

\* get_parent of the view v: LibraryView.get_parent, ArtistView.get_parent,
\* GenreView.get_parent
GetParent(v, wd) ==
  IF v = "artist"
  THEN IF wd.album # NoneText
       THEN Record(NoneText, wd.artist, NoneText, NoneText, NoneText)
       ELSE BaseParent(wd)
  ELSE IF v = "genre"
  THEN IF wd.album # NoneText
       THEN Record(wd.genre, wd.artist, NoneText, NoneText, NoneText)
       ELSE IF wd.artist # NoneText
       THEN Record(wd.genre, NoneText, NoneText, NoneText, NoneText)
       ELSE BaseParent(wd)
  ELSE BaseParent(wd)

\* how many times the loop of browse may go round before the model gives
\* up on it
MaxAscents == 6

\* what browse leaves: the rows shown, config.wd, the records it asked
\* get_data about, the caches, and how it ended
Browsed(rows, wd, trail, r, raised, exhausted) ==
  [ rows |-> rows, wd |-> wd, trail |-> trail, cache |-> r.cache,
    top |-> r.top, ncalls |-> r.ncalls, raised |-> raised,
    exhausted |-> exhausted ]

\* Library.browse, lines 1155-1166: get_data of wd, and of its parent while
\* there are no rows and the parent is another record
RECURSIVE BrowseLoop(_, _, _, _, _, _, _, _)
BrowseLoop(v, wd, vc, c, ncalls, trail, fails, fuel) ==
  The({ IF d.raised
        THEN Browsed(<<>>, wd, Append(trail, wd),
                     [d EXCEPT !.ncalls = @ + ncalls], TRUE, FALSE)
        ELSE IF Len(d.rows) > 0 \/ GetParent(v, wd) = wd
        THEN Browsed(d.rows, wd, Append(trail, wd),
                     [d EXCEPT !.ncalls = @ + ncalls], FALSE, FALSE)
        ELSE IF fuel = 0
        THEN Browsed(<<>>, GetParent(v, wd), Append(trail, wd),
                     [d EXCEPT !.ncalls = @ + ncalls], FALSE, TRUE)
        ELSE BrowseLoop(v, GetParent(v, wd), d.top, d.cache,
                        ncalls + d.ncalls, Append(trail, wd), fails, fuel - 1)
        : d \in {GetData(v, wd, vc, c, fails)} })


\* the SongRecords get_data and browse are given in each view: the top, a
\* directory, artist, album or genre some songs are in, and ones no song is
\* in
ViewQueries(v) ==
  IF v = "filesystem"
  THEN { RootRecord, PathRecord(<<"d">>), PathRecord(<<"o", "/", "a">>) }
  ELSE IF v = "album"
  THEN { RootRecord,
         Record(NoneText, <<"b", "a">>, <<"a">>, <<"1", "0">>, <<"d">>),
         Record(NoneText, NoneText, <<"r">>, NoneText, <<"d", "/", "r">>) }
  ELSE IF v = "artist"
  THEN { RootRecord,
         Record(NoneText, <<"b", "a">>, NoneText, NoneText, NoneText),
         Record(NoneText, <<"b", "a">>, <<"r">>, NoneText, NoneText),
         Record(NoneText, <<"o">>, NoneText, NoneText, NoneText) }
  ELSE { RootRecord,
         Record(<<"f">>, NoneText, NoneText, NoneText, NoneText),
         Record(<<"f">>, <<"b", "a">>, NoneText, NoneText, NoneText),
         Record(<<"o">>, <<"b", "a">>, <<"r">>, NoneText, NoneText) }

\* what is kept of the last call on the views
ViewCall(op, v, rec, fails, r, trail, exhausted) ==
  [ op |-> op, view |-> v, query |-> rec, fails |-> fails, rows |-> r.rows,
    ncalls |-> r.ncalls, raised |-> r.raised, trail |-> trail,
    exhausted |-> exhausted ]

\* a view's invalidate_cache that keeps self.cache
InvalidatedViewsButCache(vs) ==
  [ vs EXCEPT !.data_rows = [v \in ViewNames |-> {}] ]

\* lines 1088-1089: invalidate_cache of every view
InvalidatedViews(vs) ==
  [ vs EXCEPT !.cache = [v \in ViewNames |-> NoneBd],
              !.data_rows = [v \in ViewNames |-> {}] ]

\* lines 1168-1177: the keys browse puts in the row cache of the view
RowKeys(rows) ==
  { Record(NoneText, rows[k].data.artist, rows[k].data.album, NoneText,
           rows[k].data.path) : k \in 1..Len(rows) }

ViewInit ==
  /\ lib = [ visible |-> FALSE, connected |-> TRUE, entry |-> <<>>,
             last_search_num |-> 0, timeout |-> 0, timers |-> {},
             search_thread |-> 0, nthreads |-> 0 ]
  /\ search = FreshSearch
  /\ thread = NoThread
  /\ idle = <<>>
  /\ mpc = "loop"
  /\ mloc = NoLocals
  /\ hist = FreshHist
  /\ ninputs = 0
  /\ nconn = 0
  /\ cache = FreshCache
  /\ out = NoOut
  /\ views = FreshViews
  /\ albums = NoAlbums
  /\ mpdsongs = NoSongs

\* how many calls on the views a run is followed for
MaxViewCalls == 3

\* Library.view_caches_reset
ViewCachesReset ==
  /\ views.ncalls < MaxViewCalls
  /\ views' = [ InvalidatedViews(views) EXCEPT
                  !.last = [NoViewCall EXCEPT !.op = "view_caches_reset"],
                  !.probe = NoViewCall, !.failed = FALSE,
                  !.ncalls = @ + 1 ]
  /\ cache' = Invalidated(cache)
  /\ UNCHANGED searchVars
  /\ UNCHANGED <<out, albums, mpdsongs>>

\* self.view.get_data(rec); with keep, the call is the one later calls for
\* the same record are held against
CallGetData(rec, fails, keep) ==
  /\ views.ncalls < MaxViewCalls
  /\ \E r \in {GetData(views.view, rec, views.cache[views.view], cache, fails)} :
       \E call \in {ViewCall("get_data", views.view, rec, fails, r, <<>>, FALSE)} :
        /\ cache' = r.cache
        /\ views' = [ views EXCEPT
                        !.cache[views.view] = r.top,
                        !.last = call,
                        !.failed = @ \/ fails # {},
                        !.ncalls = @ + 1,
                        !.probe = IF /\ keep
                                     /\ views.probe.op = "none"
                                     /\ ~r.raised
                                     /\ fails = {}
                                  THEN call ELSE @ ]
  /\ UNCHANGED searchVars
  /\ UNCHANGED <<out, albums, mpdsongs>>

\* browse from line 1150 on, for the view v
BrowseFrom(vs, v, root, fails) ==
  \E b \in { BrowseLoop(v, root, vs.cache[v], cache, 0, <<>>, fails,
                        MaxAscents) } :
    /\ cache' = b.cache
    /\ views' = [ vs EXCEPT
                    !.view = v,
                    !.wd = b.wd,
                    !.cache[v] = b.top,
                    !.data_rows[v] = IF b.raised THEN {} ELSE RowKeys(b.rows),
                    !.last = ViewCall("browse", v, root, fails, b, b.trail,
                                      b.exhausted),
                    !.failed = @ \/ fails # {},
                    !.ncalls = @ + 1 ]

\* Library.browse(root=rec), while connected
Browse(rec, fails) ==
  /\ views.ncalls < MaxViewCalls
  /\ lib.connected
  /\ BrowseFrom(views, views.view, rec, fails)
  /\ UNCHANGED searchVars
  /\ UNCHANGED <<out, albums, mpdsongs>>

\* Library.on_view_chosen while the filter search is hidden, so that
\* on_search_end does nothing: the view changes and browse starts at '/'
ViewChosen(v, fails) ==
  /\ views.ncalls < MaxViewCalls
  /\ ~lib.visible
  /\ lib.connected
  /\ BrowseFrom(views, v, RootRecord, fails)
  /\ UNCHANGED searchVars
  /\ UNCHANGED <<out, albums, mpdsongs>>

ViewNext ==
  \/ ViewCachesReset
  \/ \E rec \in ViewQueries(views.view), fails \in ViewFailSets,
        keep \in BOOLEAN : CallGetData(rec, fails, keep)
  \/ \E rec \in ViewQueries(views.view), fails \in ViewFailSets :
       Browse(rec, fails)
  \/ \E v \in ViewNames, fails \in ViewFailSets : ViewChosen(v, fails)

ViewSpec == ViewInit /\ [][ViewNext]_vars


\* ------------------------------------------------------------------ C21
\* C21: view_caches_reset leaves the four dimension caches None and, for
\* each of the four views, the top-level cache None and the row cache
\* empty; and a top-level get_data of a view whose cache is None makes at
\* least one adapter call.
C21_InvalidationIsTotal ==
  [][ /\ views'.last.op = "view_caches_reset" =>
           /\ cache'.cache_genres = NoneList
           /\ cache'.cache_artists = NoneList
           /\ cache'.cache_albums = NoneList
           /\ cache'.cache_years = NoneList
           /\ \A v \in {"filesystem", "album", "artist", "genre"} :
                /\ views'.cache[v] = NoneBd
                /\ views'.data_rows[v] = {}
      /\ ( /\ views'.last.op = "get_data"
           /\ IsTopLevel(views'.last.view, views'.last.query)
           /\ views.cache[views'.last.view] = NoneBd ) =>
           views'.last.ncalls >= 1 ]_vars

\* a view was chosen, which filled its caches, and view_caches_reset was
\* called after that
C21_Witness ==
  /\ views.last.op = "view_caches_reset"
  /\ views.view = "artist"
  /\ views.cache["artist"] = NoneBd
  /\ views.data_rows["artist"] = {}
  /\ cache.cache_artists = NoneList


\* ------------------------------------------------------------------ C22
\* the step is a get_data call that meets no transport failure, for the
\* view and the record of a call kept earlier, with no view_caches_reset
\* in between
ProbedAgain ==
  /\ views.probe.op = "get_data"
  /\ views'.last.op = "get_data"
  /\ views'.last.view = views.probe.view
  /\ views'.last.query = views.probe.query
  /\ views'.last.fails = {}

GroupOf(id, tag) ==
  IF RowGet(id, tag) = <<>> THEN Lower(NOTAG) ELSE Lower(RowGet(id, tag))

\* the songs of the catalog in a group
GroupSongs(tag, g) == { id \in SongIds : GroupOf(id, tag) = g }

\* the playing time of a set of songs
RECURSIVE TimeOf(_)
TimeOf(ids) ==
  IF ids = {} THEN 0
  ELSE LET id == CHOOSE x \in ids : TRUE
       IN Catalog[id].time + TimeOf(ids \ {id})

\* the rows are one row for each group of the catalog that has songs, with
\* the number and the playing time of its songs, and no other row
RowsAreGroups(rows, tag) ==
  /\ \A k \in 1..Len(rows) :
       /\ rows[k].songs > 0
       /\ rows[k].songs
            = Cardinality(GroupSongs(tag, Lower(RecGet(rows[k].data, tag))))
       /\ rows[k].playtime
            = TimeOf(GroupSongs(tag, Lower(RecGet(rows[k].data, tag))))
       /\ \A j \in 1..Len(rows) :
            Lower(RecGet(rows[j].data, tag)) = Lower(RecGet(rows[k].data, tag))
              => j = k
  /\ \A id \in SongIds :
       \E k \in 1..Len(rows) : Lower(RecGet(rows[k].data, tag)) = GroupOf(id, tag)

\* the last call was get_data for the top level of the artist or the genre
\* view, and it gave rows
TagTopLevelGiven ==
  /\ views.last.op = "get_data"
  /\ views.last.view \in {"artist", "genre"}
  /\ IsTopLevel(views.last.view, views.last.query)
  /\ ~views.last.raised

Browsing == views.last.op = "browse"

\* the record one level up in a view: from an album to its artist (with
\* the genre in the genre view), from an artist of the genre view to the
\* genre, else to the directory above the path, '/' when there is no path
Ancestor(v, rec) ==
  IF v \in {"artist", "genre"} /\ rec.album # NoneText
  THEN [ genre |-> IF v = "genre" THEN rec.genre ELSE NoneText,
         artist |-> rec.artist, album |-> NoneText, year |-> NoneText,
         path |-> NoneText ]
  ELSE IF v = "genre" /\ rec.artist # NoneText
  THEN [ genre |-> rec.genre, artist |-> NoneText, album |-> NoneText,
         year |-> NoneText, path |-> NoneText ]
  ELSE [ genre |-> NoneText, artist |-> NoneText, album |-> NoneText,
         year |-> NoneText,
         path |-> IF rec.path \in {NoneText, <<>>} THEN <<"/">>
                  ELSE Dirname(rec.path) ]

\* the rows get_data gives for a record in the browsed view, with the
\* caches as browse left them and the adapter as it was during browse
RowsAt(rec) ==
  GetData(views.last.view, rec, views.cache[views.last.view], cache,
          views.last.fails).rows

\* the loop of browse ended within MaxAscents rounds; the records it went
\* through are each the record one level up from the one before, starting
\* from the record browse was given, and none but the last has rows; the
\* last is config.wd, and either browse shows its rows, which are not
\* empty, or it has no rows and is its own parent
EndsAtNearestWithRows ==
  /\ ~views.last.exhausted
  /\ Len(views.last.trail) >= 1
  /\ views.last.trail[1] = views.last.query
  /\ \A k \in 1..(Len(views.last.trail) - 1) :
       /\ views.last.trail[k + 1] = Ancestor(views.last.view, views.last.trail[k])
       /\ views.last.trail[k + 1] # views.last.trail[k]
       /\ Len(RowsAt(views.last.trail[k])) = 0
  /\ views.wd = views.last.trail[Len(views.last.trail)]
  /\ views.last.rows = RowsAt(views.wd)
  /\ \/ Len(views.last.rows) > 0
     \/ Ancestor(views.last.view, views.wd) = views.wd

\* C28: for every view and every record browse starts from, the loop that
\* goes to get_parent while get_data gives no rows ends, and it ends with
\* the rows of the nearest ancestor that has rows or at a record that is its
\* own parent.
C28_AscendAndRetryTerminates ==
  Browsing => ~views.last.raised /\ EndsAtNearestWithRows

\* the same for the calls of browse in which get_data does not raise
C28_AscendAndRetryUnlessRaised ==
  (Browsing /\ ~views.last.raised) => EndsAtNearestWithRows

\* browse went up at least two levels and found rows there
C28_Ascended ==
  /\ Browsing /\ ~views.last.raised
  /\ Len(views.last.trail) >= 3
  /\ Len(views.last.rows) > 0

\* browse went up to '/' and found no rows there either
C28_FixedPoint ==
  /\ Browsing /\ ~views.last.raised
  /\ Len(views.last.trail) >= 2
  /\ views.last.rows = <<>>


\* ------------------------------------------------------------------ C29
\* the last call gave rows: get_data, or browse, which shows the rows of
\* its last get_data
RowsGiven ==
  /\ views.last.op \in {"get_data", "browse"}
  /\ ~views.last.raised

\* no row has a sort key that comes before the key of the row ahead of it
KeysAscend(rows) ==
  \A k \in 1..(Len(rows) - 1) : ~Before(rows[k + 1].key, rows[k].key)

\* every folder row is ahead of every song row
FoldersFirst(rows) ==
  \A j \in 1..Len(rows), k \in 1..Len(rows) :
    (rows[j].type = "folder" /\ rows[k].type = "song") => j < k

\* the album of the first row is not after the album of the second by year
\* and then name: a year is before no year, an earlier year before a later
\* one, and with the same year the names (lowered, without 'the') are in
\* order
YearThenName(first, second) ==
  IF first.data.year = NOTAG /\ second.data.year = NOTAG
  THEN ~Before(LowerNoThe(second.data.album), LowerNoThe(first.data.album))
  ELSE IF second.data.year = NOTAG THEN TRUE
  ELSE IF first.data.year = NOTAG THEN FALSE
  ELSE IF first.data.year = second.data.year
  THEN ~Before(LowerNoThe(second.data.album), LowerNoThe(first.data.album))
  ELSE Before(first.data.year, second.data.year)

\* the album rows are in the order of year, then name
AlbumsByYearThenName(rows) ==
  \A j \in 1..Len(rows), k \in 1..Len(rows) :
    (j < k /\ rows[j].type = "album" /\ rows[k].type = "album")
      => YearThenName(rows[j], rows[k])

\* the call was for the albums of an artist: in the artist or the genre
\* view, for a record with an artist and no album
ArtistDrilled ==
  /\ views.last.op = "get_data"
  /\ views.last.view \in {"artist", "genre"}
  /\ views.last.query.artist # NoneText
  /\ views.last.query.album = NoneText

\* C29: the rows of every view and record are in non-decreasing order of
\* their sort keys; in the filesystem view the folder rows are ahead of the
\* song rows; and the album rows of an artist are in the order of year and
\* then name, the albums without a year after those that have one.
C29_RowsSorted ==
  RowsGiven =>
    /\ KeysAscend(views.last.rows)
    /\ views.last.view = "filesystem" => FoldersFirst(views.last.rows)
    /\ ArtistDrilled => AlbumsByYearThenName(views.last.rows)

\* the rows are in the order of their keys and folders are ahead of songs
C29_RowsSortedByKey ==
  RowsGiven =>
    /\ KeysAscend(views.last.rows)
    /\ views.last.view = "filesystem" => FoldersFirst(views.last.rows)

\* a directory and a file were listed together
C29_FolderAndSong ==
  /\ RowsGiven
  /\ views.last.view = "filesystem"
  /\ \E j, k \in 1..Len(views.last.rows) :
       views.last.rows[j].type = "folder" /\ views.last.rows[k].type = "song"

\* ================================================================ MPDSong
\* (sonata/mpdhelper.py, class MPDSong)
MaxSongs == 2         \* MPDSong objects alive at a time

\* a str value and a list value of a mapping handed to MPDSong
Str(s) == [ islist |-> FALSE, val |-> s ]
List(l) == [ islist |-> TRUE, val |-> l ]

\* the mappings python-mpd hands over: none of the keys, a file (empty,
\* plain or given twice), an id, both
Mappings ==
  { <<>>,
    [ file |-> Str(<<>>) ],
    [ file |-> Str(<<"a">>) ],
    [ file |-> Str(<<"d", "/", "a">>) ],
    [ file |-> List(<< <<"a">>, <<"b">> >>) ],
    [ id |-> Str(<<"5">>) ],
    [ id |-> Str(<<"5">>), file |-> Str(<<"a">>) ] }

\* lines 107-113: of a list value the first element is kept
FirstValues(mapping) ==
  [ k \in DOMAIN mapping |->
      IF mapping[k].islist THEN Str(mapping[k].val[1]) ELSE mapping[k] ]

\* mapping.get(key, default)
MappingGet(mapping, key, default) ==
  IF key \in DOMAIN mapping THEN mapping[key].val ELSE default

\* hash(str): 0 for '', and for the paths in use a number of its own per
\* string (the digits of the string read in base 128)
RECURSIVE HashStr(_)
HashStr(s) ==
  IF s = <<>> THEN 0
  ELSE CharCode(s[Len(s)]) + 128 * HashStr(SubSeq(s, 1, Len(s) - 1))

\* id(self): the address of the object in slot a of the heap, above the
\* hash of every path in use
Id(a) == 128 * 128 * 128 * 128 + 16 * a

\* line 145 without `and mapping`
NeedsOwnHashWhenNoFile(file, mapping) == file = <<>>

\* line 145: no file, but some attribute
NeedsOwnHash(file, mapping) == file = <<>> /\ DOMAIN mapping # {}

\* MPDSong(mapping), allocated in slot a: the attributes the comparison
\* reads, and the mapping it was built from
MPDSong(mapping, a) ==
  The({ [ at |-> a, given |-> mapping, file |-> file,
          hash |-> IF NeedsOwnHash(file, m) THEN Id(a) ELSE HashStr(file) ]
        : <<m, file>> \in
            { <<x, MappingGet(x, "file", <<>>)>>
              : x \in {FirstValues(mapping)} } })

\* hash(song), lines 170-171
Hash(song) == song.hash

\* song == other, lines 164-165
SongEq(song, other) == Hash(song) = Hash(other)

\* song != other, lines 167-168
SongNe(song, other) == Hash(song) # Hash(other)

\* the slots of the heap that hold an object
InUse == { a \in 1..MaxSongs :
             \E k \in 1..Len(mpdsongs.heap) : mpdsongs.heap[k].at = a }

SongInit ==
  /\ lib = [ visible |-> FALSE, connected |-> TRUE, entry |-> <<>>,
             last_search_num |-> 0, timeout |-> 0, timers |-> {},
             search_thread |-> 0, nthreads |-> 0 ]
  /\ search = FreshSearch
  /\ thread = NoThread
  /\ idle = <<>>
  /\ mpc = "loop"
  /\ mloc = NoLocals
  /\ hist = FreshHist
  /\ ninputs = 0
  /\ nconn = 0
  /\ cache = FreshCache
  /\ out = NoOut
  /\ views = FreshViews
  /\ albums = NoAlbums
  /\ mpdsongs = NoSongs

\* MPDSong(mapping) at an address no object alive has
NewSong(mapping) ==
  /\ Len(mpdsongs.heap) < MaxSongs
  /\ \E a \in (1..MaxSongs) \ InUse :
       mpdsongs' = [ heap |-> Append(mpdsongs.heap, MPDSong(mapping, a)),
                     compared |-> <<>> ]
  /\ UNCHANGED searchVars
  /\ UNCHANGED <<cache, out, views, albums>>

\* the last reference to the object at position k goes: its address is
\* free for the next object
DelSong(k) ==
  /\ k \in 1..Len(mpdsongs.heap)
  /\ mpdsongs' = [ heap |-> SubSeq(mpdsongs.heap, 1, k - 1)
                               \o SubSeq(mpdsongs.heap, k + 1,
                                         Len(mpdsongs.heap)),
                   compared |-> <<>> ]
  /\ UNCHANGED searchVars
  /\ UNCHANGED <<cache, out, views, albums>>

\* heap[i] == heap[j], heap[i] != heap[j] and the two hashes
Compare(i, j) ==
  /\ i \in 1..Len(mpdsongs.heap)
  /\ j \in 1..Len(mpdsongs.heap)
  /\ mpdsongs' = [ mpdsongs EXCEPT
                     !.compared =
                        << [ i |-> i, j |-> j,
                             eq |-> SongEq(mpdsongs.heap[i], mpdsongs.heap[j]),
                             ne |-> SongNe(mpdsongs.heap[i], mpdsongs.heap[j]),
                             hashes |-> << Hash(mpdsongs.heap[i]),
                                           Hash(mpdsongs.heap[j]) >> ] >> ]
  /\ UNCHANGED searchVars
  /\ UNCHANGED <<cache, out, views, albums>>

SongNext ==
  \/ \E mapping \in Mappings : NewSong(mapping)
  \/ \E k \in 1..MaxSongs : DelSong(k)
  \/ \E i, j \in 1..MaxSongs : Compare(i, j)

SongSpec == SongInit /\ [][SongNext]_vars

\* ------------------------------------------------------------------ C31
\* the file path MPD gave for the song: the first one if it gave several,
\* '' if it gave none
GivenFile(song) ==
  IF "file" \notin DOMAIN song.given THEN <<>>
  ELSE IF song.given["file"].islist THEN song.given["file"].val[1]
  ELSE song.given["file"].val

\* C31: two MPDSong objects are equal, and have equal hashes, exactly when
\* they have the same non-empty file path or are both built from an empty
\* mapping; two objects that have attributes but no file are not equal;
\* == and != give opposite answers.
C31_SongIdentity ==
  \A k \in 1..Len(mpdsongs.compared) :
    LET c == mpdsongs.compared[k]
        a == mpdsongs.heap[c.i]
        b == mpdsongs.heap[c.j]
    IN
      /\ c.ne = ~c.eq
      /\ c.eq = (c.hashes[1] = c.hashes[2])
      /\ c.i # c.j =>
           /\ c.eq = ( \/ GivenFile(a) = GivenFile(b) /\ GivenFile(a) # <<>>
                       \/ a.given = <<>> /\ b.given = <<>> )
           /\ ( /\ GivenFile(a) = <<>> /\ a.given # <<>>
                /\ GivenFile(b) = <<>> /\ b.given # <<>> ) => ~c.eq

\* two objects built from an empty mapping were compared and are equal,
\* and so were two objects with the same attribute and no file, which are
\* not
C31_Witness ==
  \E k \in 1..Len(mpdsongs.compared) :
    LET c == mpdsongs.compared[k]
        a == mpdsongs.heap[c.i]
        b == mpdsongs.heap[c.j]
    IN
      /\ c.i # c.j
      /\ \/ a.given = <<>> /\ b.given = <<>> /\ c.eq
         \/ /\ a.given = b.given /\ a.given # <<>>
            /\ GivenFile(a) = <<>> /\ ~c.eq

\* ------------------------------------------------------------------ C32
\* the dimensions of a query that constrain the count: those with a value,
\* the artist 'Various Artists' left out
CountedTags(q) ==
  { t \in {"genre", "artist", "album", "date"} :
      /\ RecGet(q, t) # NoneText
      /\ ~(t = "artist" /\ RecGet(q, t) = VARIOUS_ARTISTS) }

\* the values a dimension of the query stands for, given the caches
ValueSet(q, t) ==
  IF RecGet(q, t) = NOTAG THEN { NOTAG, <<>> }
  ELSE IF CacheGet(cache, t) = NoneList THEN {}
  ELSE { CacheGet(cache, t)[k] : k \in
           { i \in 1..Len(CacheGet(cache, t)) :
               Lower(CacheGet(cache, t)[i]) = Lower(RecGet(q, t)) } }

\* the cartesian product of the value sets of the dimensions that
\* constrain; no constraint, no element
ValueProduct(q) ==
  IF CountedTags(q) = {} THEN {}
  ELSE { f \in [ CountedTags(q) ->
                   UNION { ValueSet(q, t) : t \in CountedTags(q) } ] :
           \A t \in CountedTags(q) : f[t] \in ValueSet(q, t) }

\* an element of the product as the constraints of one count, in the
\* order of the dimensions
ConstraintsOf(q, f) ==
  LET tags == SelectSeq(ListOrder, LAMBDA t : t \in CountedTags(q))
  IN [ k \in 1..Len(tags) |-> <<tags[k], f[tags[k]]>> ]

\* the sums of playtime and songs the server counts over a set of
\* constraint lists
RECURSIVE CountSum(_)
CountSum(S) ==
  IF S = {} THEN <<0, 0>>
  ELSE LET args == CHOOSE x \in S : TRUE
           rest == CountSum(S \ {args})
       IN << MpdCountAnswer(args).playtime + rest[1],
             MpdCountAnswer(args).songs + rest[2] >>

\* what the claim gives for the count of a query
CumulativeCount(q) ==
  CountSum({ ConstraintsOf(q, f) : f \in ValueProduct(q) })

\* C32: get_count(record) comes back with the sums of the adapter's count
\* over the cartesian product of the value sets of the dimensions: every
\* cached value equal to the queried one without case, 'Untagged' and ''
\* for Untagged, nothing for a dimension without a value or for the artist
\* 'Various Artists'.
C32_CumulativeCount ==
  out.op = "get_count" =>
    /\ ~out.raised
    /\ out.ret = CumulativeCount(out.query)

\* the same for the calls of get_count during which no count fails at
\* transport level
C32_CumulativeCountUnlessRaised ==
  (out.op = "get_count" /\ ~out.raised) =>
    out.ret = CumulativeCount(out.query)

\* a get_count over several combinations of values that found songs
C32_Counted ==
  /\ out.op = "get_count"
  /\ ~out.raised
  /\ Cardinality(ValueProduct(out.query)) >= 4
  /\ Cardinality(CountedTags(out.query)) >= 2
  /\ out.ret[2] > 0

\* ------------------------------------------------------------------ C33
\* C33: the rows that search_ready_cb is handed were filtered from a broad
\* set fetched for the field and for the first two characters of the
\* input that the filtering used.
C33_CoherentDelivery ==
  hist.delivered # NoDelivery =>
    /\ hist.delivered.num # NoneNum
    /\ hist.delivered.input # NoneText
    /\ hist.delivered.key = KeyOf(hist.delivered.input, hist.delivered.num)

\* ------------------------------------------------------------------ C34
\* the main loop starts a queued perform_search in this step
PerformSearchStep == IdleHead("perform_search") /\ idle' = Tail(idle)

\* perform_search assigns search_cache in this step
StoreStep == mpc = "ps_fetch" /\ mpc' = "ps_ready"

\* C34: a perform_search that a session's worker queued does not run once
\* that session is over: none runs while search_num is None, and none
\* assigns the search_cache of a session other than the one that asked.
C34_NoFetchOutlivesSession ==
  [][ /\ PerformSearchStep =>
           /\ search.search_num # NoneNum
           /\ Head(idle).th = lib.search_thread
      /\ StoreStep => mloc.th = lib.search_thread ]_vars

\* ------------------------------------------------------------------ C35
\* a timeout source fires in this step: update_search runs
UpdateSearchStep ==
  /\ mpc = "loop"
  /\ lib'.timers # lib.timers
  /\ lib'.timers \subseteq lib.timers

\* C35: update_search runs only while a session is on (search_condition
\* is not None): no timeout is left to fire after the session's end.
C35_NoDebounceWithoutSession ==
  [][ UpdateSearchStep => lib.search_thread # 0 ]_vars

\* ------------------------------------------------------------------ C36
\* on_search_update runs in this step with the search hidden and
\* connected() False
DisconnectedActivationStep ==
  /\ mpc = "loop"
  /\ ~lib.visible
  /\ ~lib.connected
  /\ ninputs' = ninputs + 1
  /\ lib'.last_search_num = lib.last_search_num

\* C36: with the search hidden and connected() False, on_search_update
\* starts no worker and changes nothing: the search stays hidden and the
\* text just typed stays in the entry (no handler was cut short by an
\* error), and no timeout is added that would run update_search without
\* a condition.
C36_DisconnectedActivationIsNoOp ==
  [][ DisconnectedActivationStep =>
        /\ ~lib'.visible
        /\ lib'.search_thread = 0
        /\ thread' = thread
        /\ search' = search
        /\ lib'.entry # lib.entry
        /\ lib'.timers \subseteq lib.timers ]_vars

\* ------------------------------------------------------------------ C37
\* Library.view_caches_reset (lines 1085-1090) on the main loop while the
\* filter search goes on: invalidate_cache of every view and of
\* LibrarySearch; hist.stale remembers that the broad set held was fetched
\* before it
ViewCachesResetDuringSearch ==
  /\ mpc = "loop"
  /\ views' = InvalidatedViews(views)
  /\ cache' = Invalidated(cache)
  /\ hist' = [hist EXCEPT !.stale = search.search_cache # NoneRows]
  /\ UNCHANGED <<lib, search, thread, idle, mpc, mloc, ninputs, nconn>>
  /\ UNCHANGED <<out, albums, mpdsongs>>

ResetNext == Next \/ ViewCachesResetDuringSearch

\* the filter search with catalog changes in between
ResetSpec == Init /\ [][ResetNext]_vars

\* view_caches_reset runs in this step over a broad set that is held
ResetStep == ~hist.stale /\ hist'.stale

\* C37: view_caches_reset changes none of the filter search attributes,
\* and the session goes on filtering the broad set fetched before it: as
\* long as the field and the first two characters of the input are those
\* of that set, request_search asks for no new fetch.
C37_ResetLeavesSessionUntouched ==
  [][ /\ ResetStep => search' = search
      /\ ( /\ RequestStep
           /\ hist.stale
           /\ search.search_cache # NoneRows
           /\ hist.cache_key = KeyOf(search.search_input, search.search_num)
           /\ search.search_base = Prefix2(search.search_input) )
         => ~Queues("perform_search") ]_vars

\* the frame alone: view_caches_reset leaves the filter search attributes,
\* the worker and the queued callbacks as they are
C37_ResetLeavesSearchAttributes ==
  [][ ResetStep => (search' = search /\ thread' = thread /\ idle' = idle) ]_vars

\* a broad set fetched before a view_caches_reset is being filtered
C37_StaleSetFiltered ==
  /\ hist.stale
  /\ thread.wpc = "filter"
  /\ thread.rows = search.search_cache

\* ------------------------------------------------------------------ C38
\* FilesystemView.get_data_level (lines 731-738): -1 for '/', else
\* data.path.count("/")
GetDataLevel(data) ==
  IF data.path = <<"/">> THEN -1
  ELSE Cardinality({ k \in 1..Len(data.path) : data.path[k] = "/" })

\* the working record of the filesystem view is a directory other than '/'
BelowRoot == views.view = "filesystem" /\ views.wd.path # <<"/">>

\* C38: in the filesystem view the level of '/' is -1, and going from a
\* record other than '/' to its parent makes the level strictly smaller;
\* the parent of a directory of the top level is '/'.
C38_DepthDecreasesWhenAscending ==
  /\ GetDataLevel(RootRecord) = -1
  /\ BelowRoot =>
       /\ GetDataLevel(GetParent("filesystem", views.wd))
            < GetDataLevel(views.wd)
       /\ GetDataLevel(views.wd) = 0
            => GetParent("filesystem", views.wd) = RootRecord

\* the same for the directories below the top level, and for all of them
\* without `strictly`
C38_DepthNeverGrowsWhenAscending ==
  BelowRoot =>
    /\ GetDataLevel(GetParent("filesystem", views.wd))
         <= GetDataLevel(views.wd)
    /\ GetDataLevel(views.wd) > 0 =>
         GetDataLevel(GetParent("filesystem", views.wd))
           < GetDataLevel(views.wd)

\* browse has gone into a directory of the top level that has entries
C38_InTopLevelDirectory ==
  /\ BelowRoot
  /\ views.wd.path = <<"d">>
  /\ views.last.op = "browse"
  /\ ~views.last.raised
  /\ views.last.rows # <<>>


\* ------------------------------------------------------------------ C39
\* the records of a result as they are handed in again
Plain(list) ==
  [ k \in 1..Len(list) |->
      [ album |-> list[k].album, year |-> list[k].year,
        path |-> list[k].path, artist |-> list[k].artist ] ]

\* record a comes before record b in the order by album, year, path
KeyBefore(a, b) ==
  \/ Before(a.album, b.album)
  \/ /\ a.album = b.album
     /\ \/ Before(a.year, b.year)
        \/ a.year = b.year /\ Before(a.path, b.path)

\* the list is sorted by album, year, path
SortedByAlbumYearPath(list) ==
  \A k \in 1..(Len(list) - 1) : ~KeyBefore(list[k + 1], list[k])

\* list_mark_various_artists_albums applied to its own result
MarkedAgain ==
  Plain(ListMarkVariousArtistsAlbums(Plain(albums.result),
                                     albums.threshold).albums)

\* C39: for a list sorted by album, year and path, applying
\* list_mark_various_artists_albums to its own result gives that result
\* again.
C39_MergeIdempotent ==
  (albums.called /\ SortedByAlbumYearPath(albums.given))
    => MarkedAgain = Plain(albums.result)

\* no two records of the list agree in album (case aside), year, path and
\* artist
DistinctRecords(list) ==
  \A k, m \in 1..Len(list) :
    (k # m /\ SameAlbum(list[k], list[m])) => list[k].artist # list[m].artist

\* the same for sorted lists that hold no record twice
C39_MergeIdempotentOnDistinctRecords ==
  ( /\ albums.called
    /\ SortedByAlbumYearPath(albums.given)
    /\ DistinctRecords(albums.given) )
    => MarkedAgain = Plain(albums.result)

\* a sorted list was merged, records went and a record was marked
C39_SortedListMerged ==
  /\ albums.called
  /\ SortedByAlbumYearPath(albums.given)
  /\ DistinctRecords(albums.given)
  /\ albums.gone # {}
  /\ albums.marked # {}


\* ------------------------------------------------------------------ C40
\* the turns the three loops can take on a list of len records under the
\* threshold n: len of the loop over i, n - 1 of the loop over j in each
\* of them, and for the while loop one for every record it deletes and one
\* in which it breaks
MostTurns(len, n) == len + len * (n - 1) + 2 * len

\* C40: on every list, the empty one and those shorter than the threshold
\* included, list_mark_various_artists_albums never reads albums[k] at a k
\* outside the list as it is at that moment, and its loops come to an end
\* within MostTurns turns.
C40_IndexSafeAndTerminates ==
  albums.called =>
    /\ ~albums.raised
    /\ albums.turns <= MostTurns(Len(albums.given), albums.threshold)

\* records were deleted in both loops of a call on a list of full length,
\* and the loop over i ended before the length the list had at the start
C40_DeletedWhileIterating ==
  /\ albums.called
  /\ Len(albums.given) = MaxAlbums
  /\ albums.marked # {}
  /\ Cardinality(albums.gone) >= 2
  /\ Len(albums.result) < Len(albums.given)
====
